---- MODULE Spec2Model ----
(***************************************************************************)
(* Spaced-repetition engine of the vocabulary instructor: the SM-2 update  *)
(* (agents/srs.py), the expanding-retrieval update and its write-back      *)
(* (agents/vocab_instructor/simple_effectiveness_analyzer.py), and the CSV *)
(* store they share (agents/vocab_instructor/vocab_store.py).              *)
(*                                                                         *)
(* Numbers.  EF is a Python float.  It is held here in hundredths (2.5 is  *)
(* 250): every EF the code computes is a sum of the stored value and       *)
(* multiples of 0.01, and the binary rounding error the float carries can  *)
(* change a result only where interval * EF lands on an exact half, where  *)
(* round() then goes to either neighbour.  Both neighbours are allowed     *)
(* there (the `tie` input of RoundPy); everywhere else the arithmetic is   *)
(* exact.                                                                  *)
(***************************************************************************)
EXTENDS Integers, Sequences, FiniteSets, TLC

VARIABLES
    card,       \* pure-function harness: the card handed to the next update
    hist,       \* pure-function harness: the updates applied so far
    uses,       \* calculate_quality harness: [correct, total]
    grade,      \* calculate_quality harness: the value returned, or NoGrade
    file,       \* the rows of vocabulary.csv as they are on disk (all text)
    now,        \* int(time.time())
    thr,        \* per thread: the store operation in progress and its locals
    overlapped, \* history: the thread's operation ran while the other was busy
    applied,    \* history: per word, usage increments whose write completed
    lastSet,    \* history: per word, the fields the completed update_word and
                \* update_srs calls set, with the text last given for each
    disturbed,  \* history: some operations overlapped, or some write failed
    ops,        \* history: operations started
    fails,      \* history: writes that raised
    limit,      \* get_due_words harness: the limit of the query
    due,        \* get_due_words harness: whether it was asked, and the list returned
    running,               \* BackgroundProcessor.running
    processing_queue,      \* BackgroundProcessor.processing_queue
    conversation_history,  \* BackgroundProcessor.conversation_history
    processing_thread,     \* BackgroundProcessor.processing_thread: where the
                           \* thread stands in _process_queue, and its locals
    caller,     \* the thread calling start and stop: where it stands, and the
                \* start and stop calls that have returned
    added,      \* history: the arguments of the add_text calls, in order
    handed,     \* history: the analyze_conversation calls, in order
    scheduled_tests,  \* PosttestScheduler.scheduled_tests
    clock,      \* datetime.now(), in hours
    mailbox     \* history: per scheduled test, the e-mails tried and delivered

pureVars == <<card, hist, uses, grade>>
storeVars == <<file, now, thr, overlapped, applied, lastSet, disturbed, ops,
               fails>>
dueVars == <<limit, due>>
procVars == <<running, processing_queue, conversation_history,
              processing_thread, caller, added, handed>>
schedVars == <<scheduled_tests, clock, mailbox>>
vars == <<card, hist, uses, grade, file, now, thr, overlapped, applied,
          lastSet, disturbed, ops, fails, limit, due, running,
          processing_queue, conversation_history, processing_thread, caller,
          added, handed, scheduled_tests, clock, mailbox>>

(***************************************************************************)
(* Bounds of the exploration.                                              *)
(***************************************************************************)
MaxClassicSteps == 3
MaxInitInterval == 6
MaxInitReps == 3
MaxERSteps == 7
MaxUses == 10
MaxOps == 2
MaxFailures == 1
MaxTime == 2
MaxRows == 4
MaxDue == 3
MaxLimit == 3
MaxMixSteps == 3
MaxHours == 30
MaxPriorityUses == 3
MaxSessionReps == 11
MaxOrderRows == 3
MaxTieDue == 1
MaxRecordReps == 8
MaxRecordSteps == 3

NoGrade == 0 - 1

Max(a, b) == IF a >= b THEN a ELSE b
Min(a, b) == IF a <= b THEN a ELSE b

(***************************************************************************)
(* Python's round(num/den) for num >= 0, den > 0.  At an exact half the    *)
(* result is q + tie, tie \in {0, 1} (see the note on numbers above).      *)
(***************************************************************************)
RoundPy(num, den, tie) ==
    LET q == num \div den
        r == num % den
    IN  IF 2 * r > den THEN q + 1
        ELSE IF 2 * r = den THEN q + tie
        ELSE q

Ties == {0, 1}

(***************************************************************************)
(* srs.update(card, quality) -> (new_ef, new_interval, new_repetitions).   *)
(***************************************************************************)
ClampQuality(quality) == Max(0, Min(5, quality))

EFDelta(q) == 10 - (5 - q) * (8 + (5 - q) * 2)

\* Mutant: a failed review leaves EF as it was.
update_efOnSuccessOnly(c, quality, tie) ==
    LET q == ClampQuality(quality)
        new_ef == Max(130, c.ef + EFDelta(q))
    IN  IF q < 3
        THEN [ef |-> c.ef, interval |-> 1, repetitions |-> 0]
        ELSE LET new_repetitions == c.repetitions + 1
             IN  [ef |-> new_ef,
                  interval |-> IF new_repetitions = 1 THEN 1
                               ELSE IF new_repetitions = 2 THEN 6
                               ELSE RoundPy(c.interval * new_ef, 100, tie),
                  repetitions |-> new_repetitions]

\* Mutant: the quality is used as given.
update_noClamp(c, quality, tie) ==
    LET q == quality
        new_ef == Max(130, c.ef + EFDelta(q))
    IN  IF q < 3
        THEN [ef |-> new_ef, interval |-> 1, repetitions |-> 0]
        ELSE LET new_repetitions == c.repetitions + 1
             IN  [ef |-> new_ef,
                  interval |-> IF new_repetitions = 1 THEN 1
                               ELSE IF new_repetitions = 2 THEN 6
                               ELSE RoundPy(c.interval * new_ef, 100, tie),
                  repetitions |-> new_repetitions]

\* Mutant: the floor of 1.3 on the new EF is missing.
update_noFloor(c, quality, tie) ==
    LET q == ClampQuality(quality)
        new_ef == c.ef + EFDelta(q)
    IN  IF q < 3
        THEN [ef |-> new_ef, interval |-> 1, repetitions |-> 0]
        ELSE LET new_repetitions == c.repetitions + 1
             IN  [ef |-> new_ef,
                  interval |-> IF new_repetitions = 1 THEN 1
                               ELSE IF new_repetitions = 2 THEN 6
                               ELSE RoundPy(c.interval * new_ef, 100, tie),
                  repetitions |-> new_repetitions]

\* Mutant: a failed review resets repetitions but keeps the interval.
update_keepInterval(c, quality, tie) ==
    LET q == ClampQuality(quality)
        new_ef == Max(130, c.ef + EFDelta(q))
    IN  IF q < 3
        THEN [ef |-> new_ef, interval |-> c.interval, repetitions |-> 0]
        ELSE LET new_repetitions == c.repetitions + 1
             IN  [ef |-> new_ef,
                  interval |-> IF new_repetitions = 1 THEN 1
                               ELSE IF new_repetitions = 2 THEN 6
                               ELSE RoundPy(c.interval * new_ef, 100, tie),
                  repetitions |-> new_repetitions]

\* Mutant: the interval is chosen by the repetitions before the review.
update_oldRepetitions(c, quality, tie) ==
    LET q == ClampQuality(quality)
        new_ef == Max(130, c.ef + EFDelta(q))
    IN  IF q < 3
        THEN [ef |-> new_ef, interval |-> 1, repetitions |-> 0]
        ELSE LET new_repetitions == c.repetitions + 1
             IN  [ef |-> new_ef,
                  interval |-> IF c.repetitions = 1 THEN 1
                               ELSE IF c.repetitions = 2 THEN 6
                               ELSE RoundPy(c.interval * new_ef, 100, tie),
                  repetitions |-> new_repetitions]

\* Mutant: the interval is multiplied by the previous EF, not the new one.
update_oldEF(c, quality, tie) ==
    LET q == ClampQuality(quality)
        new_ef == Max(130, c.ef + EFDelta(q))
    IN  IF q < 3
        THEN [ef |-> new_ef, interval |-> 1, repetitions |-> 0]
        ELSE LET new_repetitions == c.repetitions + 1
             IN  [ef |-> new_ef,
                  interval |-> IF new_repetitions = 1 THEN 1
                               ELSE IF new_repetitions = 2 THEN 6
                               ELSE RoundPy(c.interval * c.ef, 100, tie),
                  repetitions |-> new_repetitions]

update(c, quality, tie) ==
    LET q == ClampQuality(quality)
        new_ef == Max(130, c.ef + EFDelta(q))
    IN  IF q < 3
        THEN [ef |-> new_ef, interval |-> 1, repetitions |-> 0]
        ELSE LET new_repetitions == c.repetitions + 1
             IN  [ef |-> new_ef,
                  interval |-> IF new_repetitions = 1 THEN 1
                               ELSE IF new_repetitions = 2 THEN 6
                               ELSE RoundPy(c.interval * new_ef, 100, tie),
                  repetitions |-> new_repetitions]

\* The neighbours round() can reach at an exact half of interval * new_ef.
\* EF 2.5 and the change of quality 4 (0.0) are exact in binary, so the
\* product is exact and round() goes to the even neighbour; elsewhere both
\* neighbours are allowed.
TiesOf(c, quality) ==
    IF c.ef = 250 /\ ClampQuality(quality) = 4
    THEN {((c.interval * 250) \div 100) % 2}
    ELSE Ties

(***************************************************************************)
(* srs.calculate_quality(correct_uses, total_uses).  ratio = c / t is      *)
(* compared with the decimal thresholds; for integers c, t the float       *)
(* comparison ratio >= k/10 is exactly 10 * c >= k * t.                    *)
(***************************************************************************)
\* Mutant: the 0.9 threshold is exclusive.
calculate_quality_strict(correct_uses, total_uses) ==
    IF total_uses = 0 THEN 0
    ELSE IF correct_uses = total_uses THEN 5
    ELSE IF 10 * correct_uses > 9 * total_uses THEN 4
    ELSE IF 10 * correct_uses >= 7 * total_uses THEN 3
    ELSE IF 10 * correct_uses >= 5 * total_uses THEN 2
    ELSE IF 10 * correct_uses >= 3 * total_uses THEN 1
    ELSE 0

calculate_quality(correct_uses, total_uses) ==
    IF total_uses = 0 THEN 0
    ELSE IF correct_uses = total_uses THEN 5
    ELSE IF 10 * correct_uses >= 9 * total_uses THEN 4
    ELSE IF 10 * correct_uses >= 7 * total_uses THEN 3
    ELSE IF 10 * correct_uses >= 5 * total_uses THEN 2
    ELSE IF 10 * correct_uses >= 3 * total_uses THEN 1
    ELSE 0

(***************************************************************************)
(* SimpleEffectivenessAnalyzer._calculate_srs_parameters: the pure part    *)
(* (ef, interval, repetitions); its write of next_due is in the store      *)
(* model.                                                                  *)
(***************************************************************************)
retrieval_schedule == <<2, 5, 8, 12, 16, 20>>

\* Mutant: the interval is the schedule offset itself, not the difference to
\* the previous offset.
calculate_srs_parameters_offset(c, quality) ==
    LET adjusted_quality == quality - 1
        repetitions == c.repetitions
        interval ==
            IF repetitions < Len(retrieval_schedule)
            THEN LET base == retrieval_schedule[repetitions + 1]
                 IN  IF adjusted_quality < 3 THEN Max(1, base \div 2) ELSE base
            ELSE IF adjusted_quality >= 3 THEN 1440 ELSE 720
    IN  [ef |-> Max(130, c.ef + 10 * (adjusted_quality - 2)),
         interval |-> interval,
         repetitions |-> repetitions + 1]

\* Mutant: a poor review at the checkpoint sends the record back to the
\* start of the schedule.
calculate_srs_parameters_restart(c, quality) ==
    LET adjusted_quality == quality - 1
        repetitions == c.repetitions
        interval ==
            IF repetitions < Len(retrieval_schedule)
            THEN LET next_retrieval_point == retrieval_schedule[repetitions + 1]
                     base == IF repetitions > 0
                             THEN next_retrieval_point - retrieval_schedule[repetitions]
                             ELSE next_retrieval_point
                 IN  IF adjusted_quality < 3 THEN Max(1, base \div 2) ELSE base
            ELSE IF adjusted_quality >= 3 THEN 1440 ELSE 720
    IN  [ef |-> Max(130, c.ef + 10 * (adjusted_quality - 2)),
         interval |-> interval,
         repetitions |-> IF repetitions >= Len(retrieval_schedule)
                            /\ adjusted_quality < 3
                         THEN 0 ELSE repetitions + 1]

\* Mutant: the change of EF is 0.1 for each point of the adjusted quality.
calculate_srs_parameters_steepEF(c, quality) ==
    LET adjusted_quality == quality - 1
        repetitions == c.repetitions
        interval ==
            IF repetitions < Len(retrieval_schedule)
            THEN LET next_retrieval_point == retrieval_schedule[repetitions + 1]
                     base == IF repetitions > 0
                             THEN next_retrieval_point - retrieval_schedule[repetitions]
                             ELSE next_retrieval_point
                 IN  IF adjusted_quality < 3 THEN Max(1, base \div 2) ELSE base
            ELSE IF adjusted_quality >= 3 THEN 1440 ELSE 720
    IN  [ef |-> Max(130, c.ef + 10 * adjusted_quality - 10),
         interval |-> interval,
         repetitions |-> repetitions + 1]

\* Mutant: the interval is halved on the quality as given, not on the
\* adjusted quality.
calculate_srs_parameters_rawQuality(c, quality) ==
    LET adjusted_quality == quality - 1
        repetitions == c.repetitions
        interval ==
            IF repetitions < Len(retrieval_schedule)
            THEN LET next_retrieval_point == retrieval_schedule[repetitions + 1]
                     base == IF repetitions > 0
                             THEN next_retrieval_point - retrieval_schedule[repetitions]
                             ELSE next_retrieval_point
                 IN  IF quality < 3 THEN Max(1, base \div 2) ELSE base
            ELSE IF adjusted_quality >= 3 THEN 1440 ELSE 720
    IN  [ef |-> Max(130, c.ef + 10 * (adjusted_quality - 2)),
         interval |-> interval,
         repetitions |-> repetitions + 1]

calculate_srs_parameters(c, quality) ==
    LET adjusted_quality == quality - 1
        repetitions == c.repetitions
        interval ==
            IF repetitions < Len(retrieval_schedule)
            THEN LET next_retrieval_point == retrieval_schedule[repetitions + 1]
                     base == IF repetitions > 0
                             THEN next_retrieval_point - retrieval_schedule[repetitions]
                             ELSE next_retrieval_point
                 IN  IF adjusted_quality < 3 THEN Max(1, base \div 2) ELSE base
            ELSE IF adjusted_quality >= 3 THEN 1440 ELSE 720
    IN  [ef |-> Max(130, c.ef + 10 * (adjusted_quality - 2)),
         interval |-> interval,
         repetitions |-> repetitions + 1]

DefaultCard == [ef |-> 250, interval |-> 1, repetitions |-> 0]

(***************************************************************************)
(* agents/session_optimized_srs.py: calculate_session_intervals.  The      *)
(* multiplier (1.0, 0.8, 0.6, 0.3) is held in tenths; int(base_interval *  *)
(* multiplier) is the integer quotient, which is what the float product    *)
(* truncates to for every entry of the table.                              *)
(***************************************************************************)
\* the values of the dict base_intervals, whose keys are 0 .. 7
base_intervals == <<5, 20, 60, 240, 1440, 4320, 10080, 43200>>

\* base_intervals.get(repetitions, default)
base_intervals_get(repetitions, default) ==
    IF repetitions \in 0 .. Len(base_intervals) - 1
    THEN base_intervals[repetitions + 1]
    ELSE default

\* Mutant: poor recall multiplies by 0.1.
calculate_session_intervals_tenth(repetitions, quality) ==
    LET first == base_intervals_get(repetitions, 43200)
        r == CASE quality >= 4 -> [base |-> first, tenths |-> 10]
               [] quality = 3 -> [base |-> first, tenths |-> 8]
               [] quality = 2 ->
                    [base |-> IF repetitions >= 4
                              THEN base_intervals_get(Max(0, repetitions - 2), 5)
                              ELSE first,
                     tenths |-> 6]
               [] OTHER ->
                    [base |-> IF repetitions >= 2
                              THEN base_intervals_get(0, 5)
                              ELSE first,
                     tenths |-> 1]
    IN  (r.base * r.tenths) \div 10

\* Mutant: the table is read with the repetitions after the review.
calculate_session_intervals_postLookup(repetitions, quality) ==
    LET first == base_intervals_get(repetitions + 1, 43200)
        r == CASE quality >= 4 -> [base |-> first, tenths |-> 10]
               [] quality = 3 -> [base |-> first, tenths |-> 8]
               [] quality = 2 ->
                    [base |-> IF repetitions >= 4
                              THEN base_intervals_get(Max(0, repetitions - 2), 5)
                              ELSE first,
                     tenths |-> 6]
               [] OTHER ->
                    [base |-> IF repetitions >= 2
                              THEN base_intervals_get(0, 5)
                              ELSE first,
                     tenths |-> 3]
    IN  (r.base * r.tenths) \div 10

\* Mutant: poor recall resets only from five repetitions on.
calculate_session_intervals_lateReset(repetitions, quality) ==
    LET first == base_intervals_get(repetitions, 43200)
        r == CASE quality >= 4 -> [base |-> first, tenths |-> 10]
               [] quality = 3 -> [base |-> first, tenths |-> 8]
               [] quality = 2 ->
                    [base |-> IF repetitions >= 4
                              THEN base_intervals_get(Max(0, repetitions - 2), 5)
                              ELSE first,
                     tenths |-> 6]
               [] OTHER ->
                    [base |-> IF repetitions >= 5
                              THEN base_intervals_get(0, 5)
                              ELSE first,
                     tenths |-> 3]
    IN  (r.base * r.tenths) \div 10

calculate_session_intervals(repetitions, quality) ==
    LET first == base_intervals_get(repetitions, 43200)
        r == CASE quality >= 4 -> [base |-> first, tenths |-> 10]
               [] quality = 3 -> [base |-> first, tenths |-> 8]
               [] quality = 2 ->
                    [base |-> IF repetitions >= 4
                              THEN base_intervals_get(Max(0, repetitions - 2), 5)
                              ELSE first,
                     tenths |-> 6]
               [] OTHER ->
                    [base |-> IF repetitions >= 2
                              THEN base_intervals_get(0, 5)
                              ELSE first,
                     tenths |-> 3]
    IN  (r.base * r.tenths) \div 10

(***************************************************************************)
(* Text of the CSV file.  Every field is stored as text: a sequence of     *)
(* characters.  str() and int()/float() are modelled digit by digit.       *)
(***************************************************************************)
DigitChars == <<"0", "1", "2", "3", "4", "5", "6", "7", "8", "9">>

IsDigit(ch) == \E i \in 1 .. 10 : DigitChars[i] = ch

DigitVal(ch) == (CHOOSE i \in 1 .. 10 : DigitChars[i] = ch) - 1

RECURSIVE NatStr(_)
NatStr(n) ==
    IF n < 10 THEN <<DigitChars[n + 1]>>
    ELSE NatStr(n \div 10) \o <<DigitChars[(n % 10) + 1]>>

\* str(n) for an int n
IntStr(n) == IF n < 0 THEN <<"-">> \o NatStr(0 - n) ELSE NatStr(n)

\* str(x) for a float x >= 0 held in hundredths: 250 -> "2.5", 300 -> "3.0"
FloatStr(h) ==
    NatStr(h \div 100) \o <<".">> \o
    (IF h % 10 = 0 THEN <<DigitChars[((h % 100) \div 10) + 1]>>
     ELSE <<DigitChars[((h % 100) \div 10) + 1], DigitChars[(h % 10) + 1]>>)

RECURSIVE NatVal(_)
NatVal(s) ==
    IF Len(s) = 1 THEN DigitVal(s[1])
    ELSE 10 * NatVal(SubSeq(s, 1, Len(s) - 1)) + DigitVal(s[Len(s)])

AllDigits(s) == Len(s) > 0 /\ \A i \in 1 .. Len(s) : IsDigit(s[i])

Unparsable == [ok |-> FALSE, v |-> 0]

\* int(s): [ok, v]; ok is FALSE where int() raises ValueError
ParseInt(s) ==
    IF AllDigits(s) THEN [ok |-> TRUE, v |-> NatVal(s)]
    ELSE IF Len(s) > 1 /\ s[1] = "-" /\ AllDigits(Tail(s))
         THEN [ok |-> TRUE, v |-> 0 - NatVal(Tail(s))]
    ELSE Unparsable

\* float(s) in hundredths, for the texts str() produces
ParseFloat(s) ==
    IF AllDigits(s) THEN [ok |-> TRUE, v |-> 100 * NatVal(s)]
    ELSE LET dots == {i \in 1 .. Len(s) : s[i] = "."}
         IN  IF Cardinality(dots) # 1 THEN Unparsable
             ELSE LET d == CHOOSE i \in dots : TRUE
                      whole == SubSeq(s, 1, d - 1)
                      frac == SubSeq(s, d + 1, Len(s))
                  IN  IF ~(AllDigits(whole) /\ AllDigits(frac) /\ Len(frac) <= 2)
                      THEN Unparsable
                      ELSE [ok |-> TRUE,
                            v |-> 100 * NatVal(whole) +
                                  (IF Len(frac) = 1 THEN 10 * NatVal(frac)
                                   ELSE NatVal(frac))]

(***************************************************************************)
(* vocab_store.VocabularyStore                                             *)
(***************************************************************************)
\* str.lower() on the identifiers used
Lower(w) == IF w = "Cat" THEN "cat" ELSE w

(***************************************************************************)
(* agents/session_optimized_srs.py: get_review_priority_score(word_data,   *)
(* current_time), times in milliseconds.  The score is a float; it is held *)
(* here as the exact fraction num / den, den being a tenth of an hour in   *)
(* milliseconds times total_uses (or 1), so that overdue_hours * 10 and    *)
(* (1 - accuracy) * 50 are both whole numerators.                          *)
(***************************************************************************)
HourMs == 1000 * 60 * 60

\* Mutant: the overdue bonus is capped at 300 on top of the 100.
get_review_priority_score_cap300(word_data, current_time) ==
    LET total_uses == ParseInt(word_data.total_uses).v
        correct_uses == ParseInt(word_data.correct_uses).v
        next_due == ParseInt(word_data.next_due).v
        repetitions == ParseInt(word_data.repetitions).v
        time_last_seen == ParseInt(word_data.time_last_seen).v
        unit == HourMs \div 10
        scale == IF total_uses > 0 THEN total_uses ELSE 1
        den == unit * scale
        overdue == IF next_due <= current_time
                   THEN 100 * den + Min((current_time - next_due) * scale, 300 * den)
                   ELSE 0
        time_since_last == current_time - time_last_seen
        window == IF 20 * HourMs <= time_since_last /\ time_since_last <= 28 * HourMs
                  THEN 150 * den ELSE 0
        newness == IF repetitions <= 4 THEN (5 - repetitions) * 20 * den ELSE 0
        struggling == IF total_uses > 0 /\ 10 * correct_uses < 7 * total_uses
                      THEN (total_uses - correct_uses) * 50 * unit ELSE 0
        recent == IF time_since_last <= 2 * HourMs THEN 30 * den ELSE 0
    IN  [num |-> overdue + window + newness + struggling + recent, den |-> den]

\* Mutant: the window term is added only to a record that is not overdue.
get_review_priority_score_firstTerm(word_data, current_time) ==
    LET total_uses == ParseInt(word_data.total_uses).v
        correct_uses == ParseInt(word_data.correct_uses).v
        next_due == ParseInt(word_data.next_due).v
        repetitions == ParseInt(word_data.repetitions).v
        time_last_seen == ParseInt(word_data.time_last_seen).v
        unit == HourMs \div 10
        scale == IF total_uses > 0 THEN total_uses ELSE 1
        den == unit * scale
        \* lines 77-79
        overdue == IF next_due <= current_time
                   THEN 100 * den + Min((current_time - next_due) * scale, 200 * den)
                   ELSE 0
        \* lines 82-84
        time_since_last == current_time - time_last_seen
        window == IF /\ overdue = 0
                     /\ 20 * HourMs <= time_since_last
                     /\ time_since_last <= 28 * HourMs
                  THEN 150 * den ELSE 0
        \* lines 87-88
        newness == IF repetitions <= 4 THEN (5 - repetitions) * 20 * den ELSE 0
        \* lines 91-94
        struggling == IF total_uses > 0 /\ 10 * correct_uses < 7 * total_uses
                      THEN (total_uses - correct_uses) * 50 * unit ELSE 0
        \* lines 97-98
        recent == IF time_since_last <= 2 * HourMs THEN 30 * den ELSE 0
    IN  [num |-> overdue + window + newness + struggling + recent, den |-> den]

get_review_priority_score(word_data, current_time) ==
    LET total_uses == ParseInt(word_data.total_uses).v
        correct_uses == ParseInt(word_data.correct_uses).v
        next_due == ParseInt(word_data.next_due).v
        repetitions == ParseInt(word_data.repetitions).v
        time_last_seen == ParseInt(word_data.time_last_seen).v
        unit == HourMs \div 10
        scale == IF total_uses > 0 THEN total_uses ELSE 1
        den == unit * scale
        \* lines 77-79
        overdue == IF next_due <= current_time
                   THEN 100 * den + Min((current_time - next_due) * scale, 200 * den)
                   ELSE 0
        \* lines 82-84
        time_since_last == current_time - time_last_seen
        window == IF 20 * HourMs <= time_since_last /\ time_since_last <= 28 * HourMs
                  THEN 150 * den ELSE 0
        \* lines 87-88
        newness == IF repetitions <= 4 THEN (5 - repetitions) * 20 * den ELSE 0
        \* lines 91-94
        struggling == IF total_uses > 0 /\ 10 * correct_uses < 7 * total_uses
                      THEN (total_uses - correct_uses) * 50 * unit ELSE 0
        \* lines 97-98
        recent == IF time_since_last <= 2 * HourMs THEN 30 * den ELSE 0
    IN  [num |-> overdue + window + newness + struggling + recent, den |-> den]

\* Mutant: rule 4 without the test on repetitions.
should_review_in_session_anyRepetitions(word_data, current_time, session_start) ==
    LET next_due == ParseInt(word_data.next_due).v
        time_last_seen == ParseInt(word_data.time_last_seen).v
        time_since_last == current_time - time_last_seen
    IN  \/ next_due <= current_time
        \/ time_last_seen >= session_start
        \/ 20 * HourMs <= time_since_last /\ time_since_last <= 28 * HourMs
        \/ next_due - current_time <= 6 * HourMs

\* should_review_in_session(word_data, current_time, session_start); the
\* divisions by 1000 * 60 * 60 are compared as multiples of HourMs
should_review_in_session(word_data, current_time, session_start) ==
    LET next_due == ParseInt(word_data.next_due).v
        repetitions == ParseInt(word_data.repetitions).v
        time_last_seen == ParseInt(word_data.time_last_seen).v
        time_since_last == current_time - time_last_seen
        hours_until_due == next_due - current_time
    IN  IF next_due <= current_time THEN TRUE
        ELSE IF time_last_seen >= session_start THEN TRUE
        ELSE IF 20 * HourMs <= time_since_last /\ time_since_last <= 28 * HourMs
             THEN TRUE
        ELSE IF repetitions <= 3 /\ hours_until_due <= 6 * HourMs THEN TRUE
        ELSE FALSE

\* the row add_word appends for a new word
NewRow(word) ==
    [word |-> word,
     time_last_seen |-> <<"0">>,
     correct_uses |-> <<"0">>,
     total_uses |-> <<"0">>,
     next_due |-> <<"0">>,
     EF |-> FloatStr(250),
     interval |-> IntStr(1),
     repetitions |-> IntStr(0)]

\* the loop "for i, item in enumerate(data): if item['word'].lower() ==
\* word.lower()": the index of the first match, 0 when there is none
FindRow(data, word) ==
    LET hits == {i \in 1 .. Len(data) : Lower(data[i].word) = Lower(word)}
    IN  IF hits = {} THEN 0 ELSE CHOOSE i \in hits : \A j \in hits : i <= j

\* Mutant: only the row that was changed is kept for the write.
update_word_rows_dropsOthers(data, word, kwargs) ==
    LET hits == {i \in 1 .. Len(data) : Lower(data[i].word) = Lower(word)}
    IN  IF hits = {} THEN data
        ELSE LET i == CHOOSE i \in hits : \A j \in hits : i <= j
             IN  <<[f \in DOMAIN data[i] |->
                     IF f \in DOMAIN kwargs THEN kwargs[f] ELSE data[i][f]]>>

\* Mutant: the record is looked up without .lower().
update_word_rows_caseSensitive(data, word, kwargs) ==
    LET hits == {i \in 1 .. Len(data) : data[i].word = word}
    IN  IF hits = {} THEN data
        ELSE LET i == CHOOSE i \in hits : \A j \in hits : i <= j
             IN  [data EXCEPT ![i] =
                     [f \in DOMAIN data[i] |->
                         IF f \in DOMAIN kwargs THEN kwargs[f] ELSE data[i][f]]]

\* update_word's body between _read_csv and _write_csv; kwargs is a function
\* from field names to the text str(value)
update_word_rows(data, word, kwargs) ==
    LET i == FindRow(data, word)
    IN  IF i = 0 THEN data
        ELSE [data EXCEPT ![i] =
                 [f \in DOMAIN data[i] |->
                     IF f \in DOMAIN kwargs THEN kwargs[f] ELSE data[i][f]]]

\* Mutant: the interval is taken as minutes.
update_srs_rows_minutes(data, word, current_time, new_ef, new_interval, new_repetitions) ==
    LET i == FindRow(data, word)
        next_due == current_time + new_interval * 60
    IN  IF i = 0 THEN data
        ELSE [data EXCEPT ![i].EF = FloatStr(new_ef),
                          ![i].interval = IntStr(new_interval),
                          ![i].repetitions = IntStr(new_repetitions),
                          ![i].next_due = IntStr(next_due),
                          ![i].time_last_seen = IntStr(current_time)]

\* Mutant: a record is created for a word that is not stored.
update_srs_rows_upsert(data, word, current_time, new_ef, new_interval, new_repetitions) ==
    LET i == FindRow(data, word)
        next_due == current_time + new_interval * 24 * 60 * 60
        set(row) == [row EXCEPT !.EF = FloatStr(new_ef),
                                !.interval = IntStr(new_interval),
                                !.repetitions = IntStr(new_repetitions),
                                !.next_due = IntStr(next_due),
                                !.time_last_seen = IntStr(current_time)]
    IN  IF i = 0 THEN Append(data, set(NewRow(word)))
        ELSE [data EXCEPT ![i] = set(data[i])]

\* update_srs's body between _read_csv and _write_csv
update_srs_rows(data, word, current_time, new_ef, new_interval, new_repetitions) ==
    LET i == FindRow(data, word)
        next_due == current_time + new_interval * 24 * 60 * 60
    IN  IF i = 0 THEN data
        ELSE [data EXCEPT ![i].EF = FloatStr(new_ef),
                          ![i].interval = IntStr(new_interval),
                          ![i].repetitions = IntStr(new_repetitions),
                          ![i].next_due = IntStr(next_due),
                          ![i].time_last_seen = IntStr(current_time)]

\* log_result's body between _read_csv and _write_csv: [ok, data]; ok is
\* FALSE where int() raises
log_result_rows(data, word, correct, current_time) ==
    LET i == FindRow(data, word)
    IN  IF i = 0 THEN [ok |-> TRUE, data |-> data]
        ELSE LET c == ParseInt(data[i].correct_uses)
                 t == ParseInt(data[i].total_uses)
             IN  IF ~(c.ok /\ t.ok) THEN [ok |-> FALSE, data |-> data]
                 ELSE [ok |-> TRUE,
                       data |-> [data EXCEPT
                          ![i].correct_uses =
                              IntStr(IF correct THEN c.v + 1 ELSE c.v),
                          ![i].total_uses = IntStr(t.v + 1),
                          ![i].time_last_seen = IntStr(current_time)]]

(***************************************************************************)
(* get_due_words(limit) on the rows read and the time read.                *)
(***************************************************************************)
\* the list comprehension: rows with int(next_due) <= current_time, in order
RECURSIVE FilterDue(_, _)
FilterDue(data, current_time) ==
    IF data = <<>> THEN <<>>
    ELSE (IF ParseInt(Head(data).next_due).v <= current_time
          THEN <<Head(data)>> ELSE <<>>)
         \o FilterDue(Tail(data), current_time)

\* list.sort(key=int(next_due)) is stable: a row goes after the rows whose
\* key is smaller or equal
RECURSIVE InsertByDue(_, _)
InsertByDue(sorted, row) ==
    IF sorted = <<>> THEN <<row>>
    ELSE IF ParseInt(Head(sorted).next_due).v <= ParseInt(row.next_due).v
         THEN <<Head(sorted)>> \o InsertByDue(Tail(sorted), row)
         ELSE <<row>> \o sorted

RECURSIVE SortByDue(_)
SortByDue(rows) ==
    IF rows = <<>> THEN <<>>
    ELSE InsertByDue(SortByDue(SubSeq(rows, 1, Len(rows) - 1)), rows[Len(rows)])

\* the slice s[:n] of a Python list
SliceTo(s, n) ==
    IF n >= 0 THEN SubSeq(s, 1, Min(n, Len(s)))
    ELSE SubSeq(s, 1, Max(0, Len(s) + n))

AllDueParse(data) == \A i \in 1 .. Len(data) : ParseInt(data[i].next_due).ok

\* Mutant: the due rows are returned in file order.
get_due_words_unsorted(data, current_time, lim) ==
    SliceTo(FilterDue(data, current_time), lim)

get_due_words(data, current_time, lim) ==
    SliceTo(SortByDue(FilterDue(data, current_time)), lim)

\* WordPicker.get_due_words passes the query through
WordPicker_get_due_words(data, current_time, lim) ==
    get_due_words(data, current_time, lim)

(***************************************************************************)
(* The store shared by two threads.  "main" is the caller of log_result    *)
(* and ConversationProcessor.process_text; "bg" is the background          *)
(* consumer, which runs SimpleEffectivenessAnalyzer.analyze_conversation.  *)
(* Every _read_csv and every _write_csv is a step of its own; _write_csv   *)
(* is two steps, open(path, 'w') (which truncates the file, or raises) and *)
(* the write of the rows when the file is closed.                          *)
(*                                                                         *)
(* pc of a thread:  idle;  get (get_word of the current word);  r1 o1 f1,  *)
(* r2 o2 f2, r3 o3 f3 (read, open, flush of the operation's first, second, *)
(* third write cycle);  failed (an exception reached the handler);  ret.   *)
(***************************************************************************)
Threads == {"main", "bg"}

Other(t) == IF t = "main" THEN "bg" ELSE "main"

InitialFile == <<NewRow("Cat"), NewRow("dog")>>

\* _build_word_cache at construction
word_cache == {Lower(InitialFile[i].word) : i \in 1 .. Len(InitialFile)}

\* the texts: what matters of a text is the vocabulary words found in it, in
\* order of occurrence (a word may occur twice)
Texts == {<<"cat">>, <<"dog">>, <<"cat", "cat">>}

IdleThread ==
    [op |-> "none", pc |-> "idle", word |-> "", words |-> <<>>,
     correct |-> FALSE, kwargs |-> <<>>, data |-> <<>>, current_time |-> 0,
     correct_uses |-> 0, total_uses |-> 0,
     ef |-> 0, interval |-> 0, repetitions |-> 0, next_due |-> 0,
     done |-> FALSE, snap |-> <<>>]

Busy(t) == thr[t].pc # "idle"

RowOf(data, word) == data[FindRow(data, word)]

TotalUses(data, word) == ParseInt(RowOf(data, word).total_uses).v

CorrectUses(data, word) == ParseInt(RowOf(data, word).correct_uses).v

InitStore ==
    /\ file = InitialFile
    /\ now = 1
    /\ thr = [t \in Threads |-> IdleThread]
    /\ overlapped = [t \in Threads |-> FALSE]
    /\ applied = [w \in word_cache |-> 0]
    /\ lastSet = [w \in word_cache |-> <<>>]
    /\ disturbed = FALSE
    /\ ops = 0
    /\ fails = 0

\* int(time.time()): the clock does not go back, and it may have advanced
\* since it was last read
ClockReadings == now .. Min(now + 1, MaxTime)

\* the bookkeeping every call shares: the call starts on an idle thread
Begin(t) ==
    /\ ~Busy(t)
    /\ ops < MaxOps
    /\ ops' = ops + 1
    /\ overlapped' = [u \in Threads |->
                        IF Busy(Other(t)) THEN TRUE
                        ELSE IF u = t THEN FALSE ELSE overlapped[u]]
    /\ disturbed' = (disturbed \/ Busy(Other(t)))

\* the thread's state when it turns to the next word of the text, or returns
NextWord(st, newfile) ==
    IF st.words = <<>> THEN [st EXCEPT !.pc = "ret", !.data = <<>>]
    ELSE [st EXCEPT !.pc = "get", !.word = Head(st.words),
                    !.words = Tail(st.words), !.data = <<>>,
                    !.done = FALSE, !.snap = newfile]

(* log_result(word, correct) *)
\* the call up to its write: lines 173-190, _read_csv, time.time(), the loop
log_result_call(t, w, correct) ==
    /\ Begin(t)
    /\ \E tm \in ClockReadings :
          LET r == log_result_rows(file, w, correct, tm)
          IN  /\ now' = tm
              /\ thr' = [thr EXCEPT ![t] =
                     [IdleThread EXCEPT !.op = "log_result",
                                        !.pc = IF r.ok THEN "o1" ELSE "failed",
                                        !.word = w, !.correct = correct,
                                        !.current_time = tm,
                                        !.data = r.data, !.snap = file]]
    /\ UNCHANGED <<file, applied, lastSet, fails>>
    /\ UNCHANGED <<pureVars, dueVars, procVars, schedVars>>

Call_log_result(t) ==
    \E w \in word_cache, correct \in BOOLEAN : log_result_call(t, w, correct)

(* update_word(word, **kwargs) *)
\* the keyword arguments of the direct calls: a next_due, as the session
\* scripts set it
KwargsInputs == {[next_due |-> IntStr(5)]}

\* the call up to its write: lines 134-140
update_word_call(t, w, kw) ==
    /\ Begin(t)
    /\ thr' = [thr EXCEPT ![t] =
                  [IdleThread EXCEPT !.op = "update_word", !.pc = "o1",
                                     !.word = w, !.kwargs = kw,
                                     !.data = update_word_rows(file, w, kw),
                                     !.snap = file]]
    /\ UNCHANGED <<file, now, applied, lastSet, fails>>
    /\ UNCHANGED <<pureVars, dueVars, procVars, schedVars>>

Call_update_word(t) ==
    \E w \in word_cache, kw \in KwargsInputs : update_word_call(t, w, kw)

(* update_srs(word, quality, new_ef, new_interval, new_repetitions) *)
SrsInputs == {[ef |-> 260, interval |-> 6, repetitions |-> 2]}

\* the call up to its write: lines 205-220
update_srs_call(t, w, a) ==
    /\ Begin(t)
    /\ \E tm \in ClockReadings :
          /\ now' = tm
          /\ thr' = [thr EXCEPT ![t] =
                     [IdleThread EXCEPT !.op = "update_srs", !.pc = "o1",
                                        !.word = w, !.ef = a.ef,
                                        !.interval = a.interval,
                                        !.repetitions = a.repetitions,
                                        !.current_time = tm,
                                        !.data = update_srs_rows(file, w, tm,
                                            a.ef, a.interval, a.repetitions),
                                        !.snap = file]]
    /\ UNCHANGED <<file, applied, lastSet, fails>>
    /\ UNCHANGED <<pureVars, dueVars, procVars, schedVars>>

Call_update_srs(t) ==
    \E w \in word_cache, a \in SrsInputs : update_srs_call(t, w, a)

(* add_word(word) with the default ef, interval and repetitions *)
\* Mutant: the existing words are compared without .lower().
add_word_rows_caseSensitive(data, word) ==
    IF \E i \in 1 .. Len(data) : data[i].word = word
    THEN [write |-> FALSE, data |-> data]
    ELSE [write |-> TRUE, data |-> Append(data, NewRow(word))]

\* add_word's body between _read_csv and _write_csv: lines 106-122; write is
\* FALSE where it returns at line 109
add_word_rows(data, word) ==
    IF FindRow(data, word) # 0
    THEN [write |-> FALSE, data |-> data]
    ELSE [write |-> TRUE, data |-> Append(data, NewRow(word))]

\* the call up to its write, or to its return for a word that exists; the
\* clock is read at line 112 (the reading is not used)
add_word_call(t, w) ==
    /\ Begin(t)
    /\ LET r == add_word_rows(file, w)
       IN  \E tm \in (IF r.write THEN ClockReadings ELSE {now}) :
              /\ now' = tm
              /\ thr' = [thr EXCEPT ![t] =
                     [IdleThread EXCEPT !.op = "add_word",
                                        !.pc = IF r.write THEN "o1" ELSE "ret",
                                        !.word = w,
                                        !.data = IF r.write THEN r.data ELSE <<>>,
                                        !.snap = file]]
    /\ UNCHANGED <<file, applied, lastSet, fails>>
    /\ UNCHANGED <<pureVars, dueVars, procVars, schedVars>>

(* ConversationProcessor.process_text(text) *)
Call_process_text(t) ==
    /\ Begin(t)
    /\ \E text \in Texts, tm \in ClockReadings :
          /\ now' = tm
          /\ thr' = [thr EXCEPT ![t] =
                     [IdleThread EXCEPT !.op = "process_text", !.pc = "get",
                                        !.word = Head(text),
                                        !.words = Tail(text),
                                        !.current_time = tm,
                                        !.snap = file]]
    /\ UNCHANGED <<file, applied, lastSet, fails>>
    /\ UNCHANGED <<pureVars, dueVars, procVars, schedVars>>

\* lines 82-84: get_word, "if word_data", int(total_uses)
Get_process_text(t) ==
    /\ thr[t].op = "process_text" /\ thr[t].pc = "get"
    /\ LET i == FindRow(file, thr[t].word)
           total == IF i = 0 THEN Unparsable ELSE ParseInt(file[i].total_uses)
       IN  thr' = [thr EXCEPT ![t] =
                     IF i = 0 THEN NextWord(thr[t], file)
                     ELSE IF ~total.ok THEN [thr[t] EXCEPT !.pc = "failed"]
                     ELSE [thr[t] EXCEPT !.pc = "r1",
                                         !.total_uses = total.v + 1]]
    /\ UNCHANGED <<file, now, overlapped, applied, lastSet, disturbed, ops, fails>>
    /\ UNCHANGED <<pureVars, dueVars, procVars, schedVars>>

\* lines 85-89: update_word(vocab_word, time_last_seen, total_uses), its read
Read_process_text(t) ==
    /\ thr[t].op = "process_text" /\ thr[t].pc = "r1"
    /\ thr' = [thr EXCEPT ![t].pc = "o1",
                  ![t].data = update_word_rows(file, thr[t].word,
                      [time_last_seen |-> IntStr(thr[t].current_time),
                       total_uses |-> IntStr(thr[t].total_uses)])]
    /\ UNCHANGED <<file, now, overlapped, applied, lastSet, disturbed, ops, fails>>
    /\ UNCHANGED <<pureVars, dueVars, procVars, schedVars>>

(* SimpleEffectivenessAnalyzer.analyze_conversation(text) *)
\* Python's round() of num/den where the quotient is computed exactly
RoundHalfEven(num, den) == RoundPy(num, den, (num \div den) % 2)

\* line 126
review_score(correct_uses, total_uses) ==
    Min(5, Max(1, RoundHalfEven(5 * correct_uses, total_uses)))

Call_analyze_conversation(t) ==
    /\ Begin(t)
    /\ \E text \in Texts, tm \in ClockReadings :
          /\ now' = tm
          /\ thr' = [thr EXCEPT ![t] =
                     [IdleThread EXCEPT !.op = "analyze", !.pc = "get",
                                        !.word = Head(text),
                                        !.words = Tail(text),
                                        !.current_time = tm,
                                        !.snap = file]]
    /\ UNCHANGED <<file, applied, lastSet, fails>>
    /\ UNCHANGED <<pureVars, dueVars, procVars, schedVars>>

\* Mutant: a word without a record is analyzed as a record with the defaults.
Get_analyze_conversation_defaults(t) ==
    /\ thr[t].op = "analyze" /\ thr[t].pc = "get"
    /\ \E tm \in ClockReadings :
       LET i == FindRow(file, thr[t].word)
           row == IF i = 0 THEN NewRow(thr[t].word) ELSE file[i]
       IN  /\ now' = tm
           /\ LET c == ParseInt(row.correct_uses)
                  u == ParseInt(row.total_uses)
                  e == ParseFloat(row.EF)
                  iv == ParseInt(row.interval)
                  rp == ParseInt(row.repetitions)
                  ls == ParseInt(row.time_last_seen)
              IN       IF ~(c.ok /\ u.ok /\ e.ok /\ iv.ok /\ rp.ok /\ ls.ok)
                       THEN thr' = [thr EXCEPT ![t].pc = "failed"]
                       ELSE LET res == calculate_srs_parameters(
                                          [ef |-> e.v, interval |-> iv.v,
                                           repetitions |-> rp.v],
                                          review_score(c.v + 1, u.v + 1))
                            IN  thr' = [thr EXCEPT
                                   ![t].pc = "r1",
                                   ![t].correct_uses = c.v + 1,
                                   ![t].total_uses = u.v + 1,
                                   ![t].ef = res.ef,
                                   ![t].interval = res.interval,
                                   ![t].repetitions = res.repetitions,
                                   ![t].next_due = tm + res.interval * 60]
    /\ UNCHANGED <<file, overlapped, applied, lastSet, disturbed, ops, fails>>
    /\ UNCHANGED <<pureVars, dueVars, procVars, schedVars>>

\* lines 107-133 and 193-247: get_word, the counters, the review score, the
\* new SRS parameters and next_due = time.time() + interval * 60
Get_analyze_conversation(t) ==
    /\ thr[t].op = "analyze" /\ thr[t].pc = "get"
    /\ \E tm \in ClockReadings :
       LET i == FindRow(file, thr[t].word)
       IN  /\ now' = tm
           /\ IF i = 0
              THEN thr' = [thr EXCEPT ![t].pc = "failed"]
              ELSE LET c == ParseInt(file[i].correct_uses)
                       u == ParseInt(file[i].total_uses)
                       e == ParseFloat(file[i].EF)
                       iv == ParseInt(file[i].interval)
                       rp == ParseInt(file[i].repetitions)
                       ls == ParseInt(file[i].time_last_seen)
                   IN  IF ~(c.ok /\ u.ok /\ e.ok /\ iv.ok /\ rp.ok /\ ls.ok)
                       THEN thr' = [thr EXCEPT ![t].pc = "failed"]
                       ELSE LET res == calculate_srs_parameters(
                                          [ef |-> e.v, interval |-> iv.v,
                                           repetitions |-> rp.v],
                                          review_score(c.v + 1, u.v + 1))
                            IN  thr' = [thr EXCEPT
                                   ![t].pc = "r1",
                                   ![t].correct_uses = c.v + 1,
                                   ![t].total_uses = u.v + 1,
                                   ![t].ef = res.ef,
                                   ![t].interval = res.interval,
                                   ![t].repetitions = res.repetitions,
                                   ![t].next_due = tm + res.interval * 60]
    /\ UNCHANGED <<file, overlapped, applied, lastSet, disturbed, ops, fails>>
    /\ UNCHANGED <<pureVars, dueVars, procVars, schedVars>>

\* the read of the three update cycles: line 251 update_word(next_due),
\* lines 136-141 update_word(time_last_seen, correct_uses, total_uses),
\* lines 144-150 update_srs (which reads the clock itself)
Read_analyze_conversation(t) ==
    /\ thr[t].op = "analyze" /\ thr[t].pc \in {"r1", "r2", "r3"}
    /\ \E tm \in IF thr[t].pc = "r3" THEN ClockReadings ELSE {now} :
        /\ now' = tm
        /\ thr' = [thr EXCEPT
             ![t].pc = CASE thr[t].pc = "r1" -> "o1"
                         [] thr[t].pc = "r2" -> "o2"
                         [] OTHER -> "o3",
             ![t].data =
                 CASE thr[t].pc = "r1" ->
                        update_word_rows(file, thr[t].word,
                            [next_due |-> IntStr(thr[t].next_due)])
                   [] thr[t].pc = "r2" ->
                        update_word_rows(file, thr[t].word,
                            [time_last_seen |-> IntStr(thr[t].current_time),
                             correct_uses |-> IntStr(thr[t].correct_uses),
                             total_uses |-> IntStr(thr[t].total_uses)])
                   [] OTHER ->
                        update_srs_rows(file, thr[t].word, tm, thr[t].ef,
                            thr[t].interval, thr[t].repetitions)]
    /\ UNCHANGED <<file, overlapped, applied, lastSet, disturbed, ops, fails>>
    /\ UNCHANGED <<pureVars, dueVars, procVars, schedVars>>

(* _write_csv(data) *)
\* open(csv_path, 'w') succeeds: the file is truncated
Open(t) ==
    /\ thr[t].pc \in {"o1", "o2", "o3"}
    /\ file' = <<>>
    /\ thr' = [thr EXCEPT ![t].pc = CASE thr[t].pc = "o1" -> "f1"
                                      [] thr[t].pc = "o2" -> "f2"
                                      [] OTHER -> "f3"]
    /\ UNCHANGED <<now, overlapped, applied, lastSet, disturbed, ops, fails>>
    /\ UNCHANGED <<pureVars, dueVars, procVars, schedVars>>

\* open(csv_path, 'w') raises: the file is as it was.  Only the write of
\* next_due in _calculate_srs_parameters has a handler of its own (lines
\* 250-253), after which the analysis goes on
OpenFails(t) ==
    /\ thr[t].pc \in {"o1", "o2", "o3"}
    /\ fails < MaxFailures
    /\ fails' = fails + 1
    /\ disturbed' = TRUE
    /\ thr' = [thr EXCEPT ![t].pc =
                  IF thr[t].op = "analyze" /\ thr[t].pc = "o1"
                  THEN "r2" ELSE "failed",
                          ![t].data = <<>>]
    /\ UNCHANGED <<file, now, overlapped, applied, lastSet, ops>>
    /\ UNCHANGED <<pureVars, dueVars, procVars, schedVars>>

\* history: what a completed write cycle of the thread has recorded
Counted(st) ==
    \/ st.op \in {"log_result", "process_text"}
    \/ st.op = "analyze" /\ st.pc = "f2"

FieldsSet(st) ==
    CASE st.op = "update_word" -> st.kwargs
      [] st.op = "update_srs" ->
            [EF |-> FloatStr(st.ef), interval |-> IntStr(st.interval),
             repetitions |-> IntStr(st.repetitions),
             next_due |-> IntStr(st.current_time + st.interval * 86400),
             time_last_seen |-> IntStr(st.current_time)]
      [] st.op = "log_result" ->
            [time_last_seen |-> IntStr(st.current_time)]
      [] OTHER -> <<>>

Override(f, g) ==
    [x \in DOMAIN f \cup DOMAIN g |-> IF x \in DOMAIN g THEN g[x] ELSE f[x]]

\* writer.writerows(data) and the close of the file
Flush(t) ==
    /\ thr[t].pc \in {"f1", "f2", "f3"}
    /\ file' = thr[t].data
    /\ LET st == thr[t]
           hit == FindRow(st.data, st.word) # 0
       IN  /\ applied' = IF Counted(st) /\ hit
                         THEN [applied EXCEPT ![st.word] = @ + 1]
                         ELSE applied
           /\ lastSet' = IF hit
                         THEN [lastSet EXCEPT ![st.word] = Override(@, FieldsSet(st))]
                         ELSE lastSet
           /\ thr' = [thr EXCEPT ![t] =
                 CASE st.op = "analyze" /\ st.pc = "f1" ->
                        [st EXCEPT !.pc = "r2", !.data = <<>>]
                   [] st.op = "analyze" /\ st.pc = "f2" ->
                        [st EXCEPT !.pc = "r3", !.data = <<>>]
                   [] OTHER ->
                        NextWord([st EXCEPT !.done = TRUE], st.data)]
    /\ UNCHANGED <<now, overlapped, disturbed, ops, fails>>
    /\ UNCHANGED <<pureVars, dueVars, procVars, schedVars>>

\* the handlers: "except Exception" of analyze_conversation (lines 161-162)
\* and of process_text (lines 90-91) go on with the next word; the store's
\* methods have none and the exception reaches their caller
Recover(t) ==
    /\ thr[t].pc = "failed"
    /\ thr' = [thr EXCEPT ![t] =
                  IF thr[t].op \in {"process_text", "analyze"}
                  THEN NextWord(thr[t], file)
                  ELSE [thr[t] EXCEPT !.pc = "ret", !.data = <<>>]]
    /\ UNCHANGED <<file, now, overlapped, applied, lastSet, disturbed, ops, fails>>
    /\ UNCHANGED <<pureVars, dueVars, procVars, schedVars>>

Return(t) ==
    /\ thr[t].pc = "ret"
    /\ thr' = [thr EXCEPT ![t] = IdleThread]
    /\ UNCHANGED <<file, now, overlapped, applied, lastSet, disturbed, ops, fails>>
    /\ UNCHANGED <<pureVars, dueVars, procVars, schedVars>>

PureAtRest ==
    /\ card = DefaultCard
    /\ hist = <<>>
    /\ uses = [correct |-> 0, total |-> 0]
    /\ grade = NoGrade

DueAtRest ==
    /\ limit = 0
    /\ due = [asked |-> FALSE, rows |-> <<>>]

NoThread == [pc |-> "none", text |-> <<>>, history |-> <<>>]

ProcAtRest ==
    /\ running = FALSE
    /\ processing_queue = <<>>
    /\ conversation_history = <<>>
    /\ processing_thread = NoThread
    /\ caller = [pc |-> "idle", calls |-> <<>>]
    /\ added = <<>>
    /\ handed = <<>>

SchedAtRest ==
    /\ scheduled_tests = <<>>
    /\ clock = 0
    /\ mailbox = <<>>

Init == InitStore /\ PureAtRest /\ DueAtRest /\ ProcAtRest /\ SchedAtRest

\* the steps every operation shares
StoreStep(t) ==
    \/ Open(t)
    \/ OpenFails(t)
    \/ Flush(t)
    \/ Recover(t)
    \/ Return(t)

\* the session: main logs results and processes the user's text while the
\* background consumer analyzes conversation text
Next ==
    \/ Call_log_result("main")
    \/ Call_process_text("main")
    \/ Get_process_text("main")
    \/ Read_process_text("main")
    \/ Call_analyze_conversation("bg")
    \/ Get_analyze_conversation("bg")
    \/ Read_analyze_conversation("bg")
    \/ \E t \in Threads : StoreStep(t)

Spec == Init /\ [][Next]_vars

\* the store alone: both threads call its methods directly
NextStore ==
    \E t \in Threads :
        \/ Call_log_result(t)
        \/ Call_update_word(t)
        \/ Call_update_srs(t)
        \/ StoreStep(t)

SpecStore == Init /\ [][NextStore]_vars

\* the background consumer analyzes conversation text while a write of the
\* session is under way (the session logs one correct use of "cat", before
\* anything else): the analyzer may read the file when that write has
\* truncated it, and then finds no record for a word of its cache
SessionLogsFirst == ops = 0 /\ log_result_call("main", "cat", TRUE)

NextAnalyze ==
    \/ SessionLogsFirst
    \/ Call_analyze_conversation("bg")
    \/ Get_analyze_conversation("bg")
    \/ Read_analyze_conversation("bg")
    \/ \E t \in Threads : StoreStep(t)

SpecAnalyze == Init /\ [][NextAnalyze]_vars

(***************************************************************************)
(* The store's four writing methods called with any word, one the store    *)
(* holds or one it does not: by both threads (SpecCrud), and by one caller *)
(* alone, each call returning before the next begins (SpecSeq).            *)
(***************************************************************************)
CrudWords == word_cache \cup {"elk"}

\* keyword arguments of update_word as the values passed
KwargValues ==
    {[next_due |-> 5],
     [correct_uses |-> 1, total_uses |-> 12],
     [interval |-> 0 - 3, repetitions |-> 0]}

\* str(value), line 139
StrOf(kv) == [f \in DOMAIN kv |-> IntStr(kv[f])]

InitCrud ==
    /\ file = InitialFile
    /\ now = 1
    /\ thr = [t \in Threads |-> IdleThread]
    /\ overlapped = [t \in Threads |-> FALSE]
    /\ applied = [w \in CrudWords |-> 0]
    /\ lastSet = [w \in CrudWords |-> <<>>]
    /\ disturbed = FALSE
    /\ ops = 0
    /\ fails = 0
    /\ PureAtRest
    /\ DueAtRest
    /\ ProcAtRest
    /\ SchedAtRest

Crud_add_word(t) == \E w \in CrudWords : add_word_call(t, w)

Crud_update_word(t) ==
    \E w \in CrudWords, kv \in KwargValues : update_word_call(t, w, StrOf(kv))

Crud_update_srs(t) ==
    \E w \in CrudWords, a \in SrsInputs : update_srs_call(t, w, a)

Crud_log_result(t) ==
    \E w \in CrudWords, correct \in BOOLEAN : log_result_call(t, w, correct)

CrudStep(t) ==
    \/ Crud_add_word(t)
    \/ Crud_update_word(t)
    \/ Crud_update_srs(t)
    \/ Crud_log_result(t)
    \/ StoreStep(t)

NextCrud == \E t \in Threads : CrudStep(t)

SpecCrud == InitCrud /\ [][NextCrud]_vars

NextSeq == CrudStep("main")

SpecSeq == InitCrud /\ [][NextSeq]_vars

(***************************************************************************)
(* Harness for srs.update: any card within the bounds, any qualities.      *)
(***************************************************************************)
EFInputs == {100, 130, 140, 250}
Qualities == -1 .. 6

InitClassic ==
    /\ card \in [ef : EFInputs, interval : 0 .. MaxInitInterval,
                 repetitions : 0 .. MaxInitReps]
    /\ hist = <<>>
    /\ uses = [correct |-> 0, total |-> 0]
    /\ grade = NoGrade
    /\ InitStore
    /\ DueAtRest
    /\ ProcAtRest
    /\ SchedAtRest

ClassicStep ==
    /\ Len(hist) < MaxClassicSteps
    /\ \E quality \in Qualities :
       \E tie \in TiesOf(card, quality) :
         LET after == update(card, quality, tie)
         IN  /\ card' = after
             /\ hist' = Append(hist, [quality |-> quality, before |-> card,
                                      after |-> after])
    /\ UNCHANGED <<uses, grade, storeVars, dueVars, procVars, schedVars>>

NextClassic == ClassicStep

SpecClassic == InitClassic /\ [][NextClassic]_vars

(***************************************************************************)
(* Harness for _calculate_srs_parameters: reviews of a fresh record.       *)
(***************************************************************************)
ReviewScores == 1 .. 5

InitER ==
    /\ PureAtRest
    /\ InitStore
    /\ DueAtRest
    /\ ProcAtRest
    /\ SchedAtRest

ERStep ==
    /\ Len(hist) < MaxERSteps
    /\ \E quality \in ReviewScores :
         LET after == calculate_srs_parameters(card, quality)
         IN  /\ card' = after
             /\ hist' = Append(hist, [quality |-> quality, before |-> card,
                                      after |-> after])
    /\ UNCHANGED <<uses, grade, storeVars, dueVars, procVars, schedVars>>

NextER == ERStep

SpecER == InitER /\ [][NextER]_vars

(***************************************************************************)
(* Harness for _calculate_srs_parameters: reviews of any record the store  *)
(* can hold (EF is 1.3 or more in every record the code writes).           *)
(***************************************************************************)
RecordEF == {130, 140, 250}
RecordIntervals == {1, 4, 720, 1440}

InitERRecord ==
    /\ card \in [ef : RecordEF, interval : RecordIntervals,
                 repetitions : 0 .. MaxRecordReps]
    /\ hist = <<>>
    /\ uses = [correct |-> 0, total |-> 0]
    /\ grade = NoGrade
    /\ InitStore
    /\ DueAtRest
    /\ ProcAtRest
    /\ SchedAtRest

ERRecordStep ==
    /\ Len(hist) < MaxRecordSteps
    /\ \E quality \in ReviewScores :
         LET after == calculate_srs_parameters(card, quality)
         IN  /\ card' = after
             /\ hist' = Append(hist, [quality |-> quality, before |-> card,
                                      after |-> after])
    /\ UNCHANGED <<uses, grade, storeVars, dueVars, procVars, schedVars>>

NextERRecord == ERRecordStep

SpecERRecord == InitERRecord /\ [][NextERRecord]_vars

(***************************************************************************)
(* Harness for the three interval computations applied to one record in    *)
(* any mix, from a record created with the defaults.                       *)
(* calculate_session_intervals returns the interval alone (nothing in the  *)
(* repository stores it), so its step puts the interval it returns in the  *)
(* record and leaves EF and repetitions as they are.                       *)
(***************************************************************************)
InitMix ==
    /\ PureAtRest
    /\ InitStore
    /\ DueAtRest
    /\ ProcAtRest
    /\ SchedAtRest

MixClassic ==
    /\ Len(hist) < MaxMixSteps
    /\ \E quality \in Qualities :
       \E tie \in TiesOf(card, quality) :
         LET after == update(card, quality, tie)
         IN  /\ card' = after
             /\ hist' = Append(hist, [variant |-> "classic", quality |-> quality,
                                      before |-> card, after |-> after])
    /\ UNCHANGED <<uses, grade, storeVars, dueVars, procVars, schedVars>>

MixSession ==
    /\ Len(hist) < MaxMixSteps
    /\ \E quality \in Qualities :
         LET after == [card EXCEPT !.interval =
                          calculate_session_intervals(card.repetitions, quality)]
         IN  /\ card' = after
             /\ hist' = Append(hist, [variant |-> "session", quality |-> quality,
                                      before |-> card, after |-> after])
    /\ UNCHANGED <<uses, grade, storeVars, dueVars, procVars, schedVars>>

MixExpanding ==
    /\ Len(hist) < MaxMixSteps
    /\ \E quality \in ReviewScores :
         LET after == calculate_srs_parameters(card, quality)
         IN  /\ card' = after
             /\ hist' = Append(hist, [variant |-> "expanding", quality |-> quality,
                                      before |-> card, after |-> after])
    /\ UNCHANGED <<uses, grade, storeVars, dueVars, procVars, schedVars>>

NextMix == MixClassic \/ MixSession \/ MixExpanding

SpecMix == InitMix /\ [][NextMix]_vars

(***************************************************************************)
(* Harness for calculate_session_intervals alone: uses holds the           *)
(* arguments, grade the interval returned.                                 *)
(***************************************************************************)
InitSession ==
    /\ uses \in [repetitions : 0 .. MaxSessionReps, quality : Qualities]
    /\ grade = NoGrade
    /\ card = DefaultCard
    /\ hist = <<>>
    /\ InitStore
    /\ DueAtRest
    /\ ProcAtRest
    /\ SchedAtRest

SessionInterval ==
    /\ grade = NoGrade
    /\ grade' = calculate_session_intervals(uses.repetitions, uses.quality)
    /\ UNCHANGED <<uses, card, hist, storeVars, dueVars, procVars, schedVars>>

NextSession == SessionInterval

SpecSession == InitSession /\ [][NextSession]_vars

(***************************************************************************)
(* Harness for get_review_priority_score: card holds word_data (a row of   *)
(* the store, all text), now the current time in milliseconds, grade the   *)
(* score.                                                                  *)
(***************************************************************************)
PriorityNow == MaxHours * HourMs

\* next_due: overdue by a whole number of hours, by a millisecond, or not due
PriorityDue ==
    {PriorityNow - h * HourMs : h \in 0 .. MaxHours}
        \cup {PriorityNow - 1, PriorityNow + 1, PriorityNow + HourMs}

\* time_last_seen: around the edges of the two windows the score looks at
PrioritySeen ==
    {PriorityNow - h * HourMs : h \in {0, 2, 3, 19, 20, 24, 28, 29}}
        \cup {PriorityNow - 2 * HourMs - 1, PriorityNow - 28 * HourMs - 1}

PriorityRows ==
    {[NewRow("cat") EXCEPT !.next_due = IntStr(d),
                           !.time_last_seen = IntStr(s),
                           !.repetitions = IntStr(r),
                           !.correct_uses = IntStr(u.correct),
                           !.total_uses = IntStr(u.total)] :
        d \in PriorityDue, s \in PrioritySeen, r \in {0, 4, 5, 6},
        u \in {u \in [correct : 0 .. MaxPriorityUses,
                      total : 0 .. MaxPriorityUses] : u.correct <= u.total}}

\* grade before the score is computed (a score has a positive denominator)
NotScored == [num |-> 0, den |-> 0]

InitPriority ==
    /\ card \in PriorityRows
    /\ now = PriorityNow
    /\ grade = NotScored
    /\ hist = <<>>
    /\ uses = [correct |-> 0, total |-> 0]
    /\ file = InitialFile
    /\ thr = [t \in Threads |-> IdleThread]
    /\ overlapped = [t \in Threads |-> FALSE]
    /\ applied = [w \in word_cache |-> 0]
    /\ lastSet = [w \in word_cache |-> <<>>]
    /\ disturbed = FALSE
    /\ ops = 0
    /\ fails = 0
    /\ DueAtRest
    /\ ProcAtRest
    /\ SchedAtRest

Score ==
    /\ grade = NotScored
    /\ grade' = get_review_priority_score(card, now)
    /\ UNCHANGED <<uses, card, hist, storeVars, dueVars, procVars, schedVars>>

NextPriority == Score

SpecPriority == InitPriority /\ [][NextPriority]_vars

(***************************************************************************)
(* Harness for should_review_in_session: card holds word_data, now the     *)
(* current time in milliseconds, uses the session start, grade the answer. *)
(***************************************************************************)
\* next_due: overdue, due now, and around the 6-hour edge of rule 4
EligibleDue ==
    {PriorityNow - HourMs, PriorityNow, PriorityNow + 1, PriorityNow + HourMs,
     PriorityNow + 6 * HourMs, PriorityNow + 6 * HourMs + 1,
     PriorityNow + 7 * HourMs}

\* time_last_seen: around the edges of the 20-28 hour window
EligibleSeen ==
    {PriorityNow - h * HourMs : h \in {0, 1, 19, 20, 24, 28, 29}}
        \cup {PriorityNow - 20 * HourMs + 1, PriorityNow - 28 * HourMs - 1}

\* session_start: before every time_last_seen, among them, and after them
EligibleStarts ==
    {PriorityNow - h * HourMs : h \in {MaxHours, 24, 1}} \cup {PriorityNow + 1}

EligibleRows ==
    {[NewRow("cat") EXCEPT !.next_due = IntStr(d),
                           !.time_last_seen = IntStr(s),
                           !.repetitions = IntStr(r)] :
        d \in EligibleDue, s \in EligibleSeen, r \in {0, 3, 4, 5}}

Undecided == [decided |-> FALSE, review |-> FALSE]

InitEligible ==
    /\ card \in EligibleRows
    /\ now = PriorityNow
    /\ uses \in [session_start : EligibleStarts]
    /\ grade = Undecided
    /\ hist = <<>>
    /\ file = InitialFile
    /\ thr = [t \in Threads |-> IdleThread]
    /\ overlapped = [t \in Threads |-> FALSE]
    /\ applied = [w \in word_cache |-> 0]
    /\ lastSet = [w \in word_cache |-> <<>>]
    /\ disturbed = FALSE
    /\ ops = 0
    /\ fails = 0
    /\ DueAtRest
    /\ ProcAtRest
    /\ SchedAtRest

Decide ==
    /\ ~grade.decided
    /\ grade' = [decided |-> TRUE,
                 review |-> should_review_in_session(card, now, uses.session_start)]
    /\ UNCHANGED <<uses, card, hist, storeVars, dueVars, procVars, schedVars>>

NextEligible == Decide

SpecEligible == InitEligible /\ [][NextEligible]_vars

(***************************************************************************)
(* Harness for calculate_quality.                                          *)
(***************************************************************************)
InitQuality ==
    /\ uses \in {u \in [correct : 0 .. MaxUses, total : 0 .. MaxUses] :
                    u.correct <= u.total}
    /\ grade = NoGrade
    /\ card = DefaultCard
    /\ hist = <<>>
    /\ InitStore
    /\ DueAtRest
    /\ ProcAtRest
    /\ SchedAtRest

Grade ==
    /\ grade = NoGrade
    /\ grade' = calculate_quality(uses.correct, uses.total)
    /\ UNCHANGED <<uses, card, hist, storeVars, dueVars, procVars, schedVars>>

NextQuality == Grade

SpecQuality == InitQuality /\ [][NextQuality]_vars

(***************************************************************************)
(* Harness for get_due_words: any store within the bounds, any time, any   *)
(* limit up to the bound, and -1 (which Python's slice counts from the     *)
(* end).                                                                   *)
(***************************************************************************)
DueWords == <<"ant", "bee", "cow", "elk", "fox", "gnu">>

DueRow(k, d) == [NewRow(DueWords[k]) EXCEPT !.next_due = IntStr(d)]

DueStores ==
    UNION {{[k \in 1 .. n |-> DueRow(k, ds[k])] : ds \in [1 .. n -> 0 .. MaxDue]} :
              n \in 0 .. MaxRows}

InitDue ==
    /\ file \in DueStores
    /\ now \in 0 .. MaxDue
    /\ limit \in (0 - 1) .. MaxLimit
    /\ due = [asked |-> FALSE, rows |-> <<>>]
    /\ thr = [t \in Threads |-> IdleThread]
    /\ overlapped = [t \in Threads |-> FALSE]
    /\ applied = [w \in word_cache |-> 0]
    /\ lastSet = [w \in word_cache |-> <<>>]
    /\ disturbed = FALSE
    /\ ops = 0
    /\ fails = 0
    /\ PureAtRest
    /\ ProcAtRest
    /\ SchedAtRest

\* WordPicker.get_due_words(limit) -> vocab_store.get_due_words(limit)
Query ==
    /\ ~due.asked
    /\ AllDueParse(file)
    /\ due' = [asked |-> TRUE, rows |-> WordPicker_get_due_words(file, now, limit)]
    /\ UNCHANGED <<limit, storeVars, pureVars, procVars, schedVars>>

NextDue == Query

SpecDue == InitDue /\ [][NextDue]_vars

(***************************************************************************)
(* Harness for get_due_words over stores whose records are in any order:   *)
(* the first n words in every arrangement, with few distinct next_due      *)
(* values so that records tie.                                             *)
(***************************************************************************)
Arrangements(n) ==
    {p \in [1 .. n -> 1 .. n] : \A i, j \in 1 .. n : p[i] = p[j] => i = j}

OrderStores ==
    UNION {{[k \in 1 .. n |-> DueRow(p[k], ds[k])] :
               p \in Arrangements(n), ds \in [1 .. n -> 0 .. MaxTieDue]} :
              n \in 0 .. MaxOrderRows}

InitDueOrder ==
    /\ file \in OrderStores
    /\ now \in 0 .. MaxTieDue
    /\ limit \in 0 .. MaxLimit
    /\ due = [asked |-> FALSE, rows |-> <<>>]
    /\ thr = [t \in Threads |-> IdleThread]
    /\ overlapped = [t \in Threads |-> FALSE]
    /\ applied = [w \in word_cache |-> 0]
    /\ lastSet = [w \in word_cache |-> <<>>]
    /\ disturbed = FALSE
    /\ ops = 0
    /\ fails = 0
    /\ PureAtRest
    /\ ProcAtRest
    /\ SchedAtRest

SpecDueOrder == InitDueOrder /\ [][NextDue]_vars

(***************************************************************************)
(* BackgroundProcessor: one object, the thread it starts, the thread that  *)
(* calls start and stop, and add_text called from any thread.  A text is a *)
(* sequence of characters.  The two appends of add_text and the dequeue of *)
(* _process_queue run under self.lock, so each is one step; the reads of   *)
(* self.running and of the queue length outside the lock are steps of      *)
(* their own.  stop is two steps, the assignment and the return of join.   *)
(***************************************************************************)
MaxTexts == 2
MaxCalls == 3

context_window_size == 5

Messages == {<<>>, <<" ">>, <<"a">>, <<" ", "b">>}

IsSpace(ch) == ch \in {" ", "\n"}

RECURSIVE lstrip(_)
lstrip(text) ==
    IF text # <<>> /\ IsSpace(Head(text)) THEN lstrip(Tail(text)) ELSE text

RECURSIVE rstrip(_)
rstrip(text) ==
    IF text # <<>> /\ IsSpace(text[Len(text)])
    THEN rstrip(SubSeq(text, 1, Len(text) - 1))
    ELSE text

strip(text) == rstrip(lstrip(text))

\* deque(maxlen=n).append(x)
deque_append(d, x, maxlen) ==
    IF Len(d) >= maxlen THEN Append(Tail(d), x) ELSE Append(d, x)

is_alive(thread) == thread.pc \notin {"none", "dead"}

Returns(call) == [pc |-> "idle", calls |-> Append(caller.calls, call)]

start ==
    /\ caller.pc = "idle"
    /\ Len(caller.calls) < MaxCalls
    /\ IF ~is_alive(processing_thread)
       THEN /\ running' = TRUE
            /\ processing_thread' = [NoThread EXCEPT !.pc = "while"]
       ELSE UNCHANGED <<running, processing_thread>>
    /\ caller' = Returns("start")
    /\ UNCHANGED <<processing_queue, conversation_history, added, handed>>
    /\ UNCHANGED <<pureVars, storeVars, dueVars, schedVars>>

stop ==
    /\ caller.pc = "idle"
    /\ Len(caller.calls) < MaxCalls
    /\ running' = FALSE
    /\ caller' = IF is_alive(processing_thread)
                 THEN [caller EXCEPT !.pc = "join"]
                 ELSE Returns("stop")
    /\ UNCHANGED <<processing_queue, conversation_history, processing_thread,
                   added, handed>>
    /\ UNCHANGED <<pureVars, storeVars, dueVars, schedVars>>

\* join(timeout=2.0) returns because the thread has ended
join_returns ==
    /\ caller.pc = "join"
    /\ ~is_alive(processing_thread)
    /\ caller' = Returns("stop")
    /\ UNCHANGED <<running, processing_queue, conversation_history,
                   processing_thread, added, handed>>
    /\ UNCHANGED <<pureVars, storeVars, dueVars, schedVars>>

\* join(timeout=2.0) returns after two seconds: the thread sleeps for half a
\* second at most, so only an analysis keeps it from ending in time
join_times_out ==
    /\ caller.pc = "join"
    /\ processing_thread.pc = "analyze"
    /\ caller' = Returns("stop")
    /\ UNCHANGED <<running, processing_queue, conversation_history,
                   processing_thread, added, handed>>
    /\ UNCHANGED <<pureVars, storeVars, dueVars, schedVars>>

add_text_unchecked(text) ==
    /\ Len(added) < MaxTexts
    /\ added' = Append(added, text)
    /\ conversation_history' =
           deque_append(conversation_history, text, context_window_size)
    /\ processing_queue' = Append(processing_queue, text)
    /\ UNCHANGED <<running, processing_thread, caller, handed>>
    /\ UNCHANGED <<pureVars, storeVars, dueVars, schedVars>>

add_text(text) ==
    /\ Len(added) < MaxTexts
    /\ added' = Append(added, text)
    /\ IF text = <<>> \/ strip(text) = <<>>
       THEN UNCHANGED <<conversation_history, processing_queue>>
       ELSE /\ conversation_history' =
                   deque_append(conversation_history, text, context_window_size)
            /\ processing_queue' = Append(processing_queue, text)
    /\ UNCHANGED <<running, processing_thread, caller, handed>>
    /\ UNCHANGED <<pureVars, storeVars, dueVars, schedVars>>

\* while self.running:
process_queue_while ==
    /\ processing_thread.pc = "while"
    /\ processing_thread' =
           [processing_thread EXCEPT !.pc = IF running THEN "check" ELSE "dead"]
    /\ UNCHANGED <<running, processing_queue, conversation_history, caller,
                   added, handed>>
    /\ UNCHANGED <<pureVars, storeVars, dueVars, schedVars>>

\* if len(self.processing_queue) == 0: time.sleep(0.5); continue
process_queue_check ==
    /\ processing_thread.pc = "check"
    /\ processing_thread' =
           [processing_thread EXCEPT
                !.pc = IF Len(processing_queue) = 0 THEN "while" ELSE "lock"]
    /\ UNCHANGED <<running, processing_queue, conversation_history, caller,
                   added, handed>>
    /\ UNCHANGED <<pureVars, storeVars, dueVars, schedVars>>

\* with self.lock: popleft and the copy of the history; then the call of
\* analyzer.analyze_conversation(text, history)
process_queue_take ==
    /\ processing_thread.pc = "lock"
    /\ IF Len(processing_queue) = 0
       THEN /\ processing_thread' = [processing_thread EXCEPT !.pc = "while"]
            /\ UNCHANGED <<processing_queue, handed>>
       ELSE LET text == Head(processing_queue)
                history == SubSeq(conversation_history, 1,
                                  Len(conversation_history) - 1)
            IN  /\ processing_queue' = Tail(processing_queue)
                /\ processing_thread' =
                       [pc |-> "analyze", text |-> text, history |-> history]
                /\ handed' = Append(handed, [text |-> text,
                                             history |-> history,
                                             outcome |-> "running"])
    /\ UNCHANGED <<running, conversation_history, caller, added>>
    /\ UNCHANGED <<pureVars, storeVars, dueVars, schedVars>>

\* Mutant: the exception leaves _process_queue and ends the thread.
process_queue_propagate(thread) == [thread EXCEPT !.pc = "dead"]

\* what becomes of an exception the analysis raised: except Exception logs it
process_queue_except(thread) == [thread EXCEPT !.pc = "while"]

\* the analysis returns a result (processed or not, it is only logged) or
\* raises an Exception; then time.sleep(0.1) and the next round of the loop
process_queue_analyzed ==
    /\ processing_thread.pc = "analyze"
    /\ \E outcome \in {"returned", "raised"} :
          /\ handed' = [handed EXCEPT ![Len(handed)].outcome = outcome]
          /\ processing_thread' =
                 IF outcome = "raised"
                 THEN process_queue_except(processing_thread)
                 ELSE [processing_thread EXCEPT !.pc = "while"]
    /\ UNCHANGED <<running, processing_queue, conversation_history, caller,
                   added>>
    /\ UNCHANGED <<pureVars, storeVars, dueVars, schedVars>>

process_queue ==
    \/ process_queue_while
    \/ process_queue_check
    \/ process_queue_take
    \/ process_queue_analyzed

InitProc ==
    /\ InitStore
    /\ PureAtRest
    /\ DueAtRest
    /\ ProcAtRest
    /\ SchedAtRest

NextProc ==
    \/ start
    \/ stop
    \/ join_returns
    \/ join_times_out
    \/ \E text \in Messages : add_text(text)
    \/ process_queue_while
    \/ process_queue_check
    \/ process_queue_take
    \/ process_queue_analyzed

\* the processing thread is a thread of its own: it is scheduled again and
\* again, and an analysis ends
SpecProc == InitProc /\ [][NextProc]_vars /\ WF_vars(process_queue)

(***************************************************************************)
(* PosttestScheduler: one object and the calls made on it, one at a time   *)
(* (the daemon runs its jobs in sequence).  Times are hours.  Whether      *)
(* send_posttest_email and send_reminder_email return True is the mail     *)
(* server's choice; an e-mail counts as delivered when they do.  The file  *)
(* save_scheduled_tests writes is not read again by the object and is left *)
(* out.                                                                    *)
(***************************************************************************)
MaxTests == 1
MaxClock == 26
MaxFailedDeliveries == 1

posttest_delay_hours == 24
reminder_delay_hours == 25
max_reminders == 2

NoTime == 0 - 1

Participants == {"001", "002"}

Elapses == {1, posttest_delay_hours}

NoMail == [posttests_tried |-> 0, posttests_delivered |-> 0,
           reminders_tried |-> 0, reminders_delivered |-> 0]

Tests == 1 .. Len(scheduled_tests)

\* what the mail server may answer to the next attempts, one answer per test
Deliveries ==
    {ok \in [Tests -> BOOLEAN] :
        \A i \in Tests :
            (mailbox[i].posttests_tried - mailbox[i].posttests_delivered
                + mailbox[i].reminders_tried - mailbox[i].reminders_delivered
                    >= MaxFailedDeliveries) => ok[i]}

\* generate_posttest_form returned a URL or None
schedule_participant_posttest(participant_id, form_url) ==
    /\ Len(scheduled_tests) < MaxTests
    /\ IF ~form_url
       THEN UNCHANGED <<scheduled_tests, mailbox>>
       ELSE /\ scheduled_tests' = Append(scheduled_tests,
                   [participant_id |-> participant_id,
                    session_complete_time |-> clock,
                    scheduled_posttest_time |-> clock + posttest_delay_hours,
                    email_sent |-> FALSE,
                    email_sent_time |-> NoTime,
                    test_completed |-> FALSE,
                    reminders_sent |-> 0])
            /\ mailbox' = Append(mailbox, NoMail)
    /\ UNCHANGED clock
    /\ UNCHANGED <<pureVars, storeVars, dueVars, procVars>>

\* if test['email_sent'] or test['test_completed']: continue
posttest_pending_uncompleted(test) == ~test.test_completed

posttest_pending(test) == ~(test.email_sent \/ test.test_completed)

posttest_due(test, current_time) ==
    /\ posttest_pending(test)
    /\ current_time >= test.scheduled_posttest_time

check_and_send_pending_tests ==
    /\ \E ok \in Deliveries :
          /\ scheduled_tests' =
                 [i \in Tests |->
                     IF posttest_due(scheduled_tests[i], clock) /\ ok[i]
                     THEN [scheduled_tests[i] EXCEPT !.email_sent = TRUE,
                                                     !.email_sent_time = clock]
                     ELSE scheduled_tests[i]]
          /\ mailbox' =
                 [i \in Tests |->
                     IF posttest_due(scheduled_tests[i], clock)
                     THEN [mailbox[i] EXCEPT
                              !.posttests_tried = @ + 1,
                              !.posttests_delivered = IF ok[i] THEN @ + 1 ELSE @]
                     ELSE mailbox[i]]
    /\ UNCHANGED clock
    /\ UNCHANGED <<pureVars, storeVars, dueVars, procVars>>

\* if test['test_completed'] or test['reminders_sent'] >= max_reminders: continue
\* if not test['email_sent']: continue
reminder_pending_one_more(test) ==
    /\ ~(test.test_completed \/ test.reminders_sent > max_reminders)
    /\ test.email_sent

reminder_pending(test) ==
    /\ ~(test.test_completed \/ test.reminders_sent >= max_reminders)
    /\ test.email_sent

reminder_due(test, current_time) ==
    /\ reminder_pending(test)
    /\ current_time >= test.email_sent_time
                           + (reminder_delay_hours - posttest_delay_hours)

send_reminders ==
    /\ \E ok \in Deliveries :
          /\ scheduled_tests' =
                 [i \in Tests |->
                     IF reminder_due(scheduled_tests[i], clock) /\ ok[i]
                     THEN [scheduled_tests[i] EXCEPT !.reminders_sent = @ + 1]
                     ELSE scheduled_tests[i]]
          /\ mailbox' =
                 [i \in Tests |->
                     IF reminder_due(scheduled_tests[i], clock)
                     THEN [mailbox[i] EXCEPT
                              !.reminders_tried = @ + 1,
                              !.reminders_delivered = IF ok[i] THEN @ + 1 ELSE @]
                     ELSE mailbox[i]]
    /\ UNCHANGED clock
    /\ UNCHANGED <<pureVars, storeVars, dueVars, procVars>>

\* the first test of the participant that is not completed yet, if any
mark_test_completed(participant_id) ==
    /\ LET open == {i \in Tests :
                      /\ scheduled_tests[i].participant_id = participant_id
                      /\ ~scheduled_tests[i].test_completed}
       IN  IF open = {}
           THEN UNCHANGED scheduled_tests
           ELSE LET first == CHOOSE i \in open : \A j \in open : i <= j
                IN  scheduled_tests' =
                        [scheduled_tests EXCEPT ![first].test_completed = TRUE]
    /\ UNCHANGED <<clock, mailbox>>
    /\ UNCHANGED <<pureVars, storeVars, dueVars, procVars>>

\* time passes between two calls
Elapse ==
    /\ \E hours \in Elapses :
          /\ clock + hours <= MaxClock
          /\ clock' = clock + hours
    /\ UNCHANGED <<scheduled_tests, mailbox>>
    /\ UNCHANGED <<pureVars, storeVars, dueVars, procVars>>

InitSched ==
    /\ InitStore
    /\ PureAtRest
    /\ DueAtRest
    /\ ProcAtRest
    /\ SchedAtRest

NextSched ==
    \/ \E participant_id \in Participants, form_url \in BOOLEAN :
           schedule_participant_posttest(participant_id, form_url)
    \/ check_and_send_pending_tests
    \/ send_reminders
    \/ \E participant_id \in Participants : mark_test_completed(participant_id)
    \/ Elapse

SpecSched == InitSched /\ [][NextSched]_vars

(***************************************************************************)
(* EffectivenessAnalyzer._calculate_srs_parameters(word_data, quality),    *)
(* the SM-2 step of the first analyzer, quality being a review score 1..5. *)
(* The interval is round(interval * ef) with the EF of the record as read, *)
(* and the EF is updated after it.                                         *)
(***************************************************************************)
MaxSecondSteps == 2

\* round() at an exact half of interval * ef: EF 2.5 is exact in binary and
\* round() goes to the even neighbour; elsewhere both neighbours are allowed
SecondTiesOf(word_data) ==
    IF word_data.ef = 250
    THEN {((word_data.interval * 250) \div 100) % 2}
    ELSE Ties

EffectivenessAnalyzer_calculate_srs_parameters(word_data, quality, tie) ==
    LET sm2_quality == quality - 1
        ef == Max(130, word_data.ef + EFDelta(sm2_quality))
    IN  IF sm2_quality < 3
        THEN [ef |-> ef, interval |-> 1, repetitions |-> 0]
        ELSE LET repetitions == word_data.repetitions + 1
             IN  [ef |-> ef,
                  interval |-> IF repetitions = 1 THEN 1
                               ELSE IF repetitions = 2 THEN 6
                               ELSE RoundPy(word_data.interval * word_data.ef,
                                            100, tie),
                  repetitions |-> repetitions]

InitSecond == InitClassic

SecondStep ==
    /\ Len(hist) < MaxSecondSteps
    /\ \E quality \in ReviewScores :
       \E tie \in SecondTiesOf(card) :
         LET after ==
                 EffectivenessAnalyzer_calculate_srs_parameters(card, quality, tie)
         IN  /\ card' = after
             /\ hist' = Append(hist, [quality |-> quality, before |-> card,
                                      after |-> after])
    /\ UNCHANGED <<uses, grade, storeVars, dueVars, procVars, schedVars>>

NextSecond == SecondStep

SpecSecond == InitSecond /\ [][NextSecond]_vars

(***************************************************************************)
(* Harness for srs.update on the records a new word can come to: the       *)
(* record add_word writes by default, then any qualities.                  *)
(***************************************************************************)
MaxReachSteps == 4

InitReach ==
    /\ InitStore
    /\ PureAtRest
    /\ DueAtRest
    /\ ProcAtRest
    /\ SchedAtRest

ReachStep ==
    /\ Len(hist) < MaxReachSteps
    /\ \E quality \in Qualities :
       \E tie \in TiesOf(card, quality) :
         LET after == update(card, quality, tie)
         IN  /\ card' = after
             /\ hist' = Append(hist, [quality |-> quality, before |-> card,
                                      after |-> after])
    /\ UNCHANGED <<uses, grade, storeVars, dueVars, procVars, schedVars>>

NextReach == ReachStep

SpecReach == InitReach /\ [][NextReach]_vars

(***************************************************************************)
(* Harness for calculate_session_intervals at one repetitions count and    *)
(* several qualities, one call after the other.                            *)
(***************************************************************************)
MaxGrades == 3

InitGrades ==
    /\ uses \in [repetitions : 0 .. MaxSessionReps]
    /\ grade = NoGrade
    /\ card = DefaultCard
    /\ hist = <<>>
    /\ InitStore
    /\ DueAtRest
    /\ ProcAtRest
    /\ SchedAtRest

SessionIntervalAgain ==
    /\ Len(hist) < MaxGrades
    /\ \E quality \in Qualities :
          /\ \A k \in 1 .. Len(hist) : hist[k].quality # quality
          /\ grade' = calculate_session_intervals(uses.repetitions, quality)
          /\ hist' = Append(hist, [quality |-> quality, interval |-> grade'])
    /\ UNCHANGED <<uses, card, storeVars, dueVars, procVars, schedVars>>

NextGrades == SessionIntervalAgain

SpecGrades == InitGrades /\ [][NextGrades]_vars

(***************************************************************************)
(* Claims about the pure functions.                                        *)
(***************************************************************************)

\* C1: whatever the card (its EF may already be below 1.3) and whatever the
\* quality, the EF srs.update returns is at least 1.3.
ClassicEFAtLeastMinimum ==
    \A i \in 1 .. Len(hist) : hist[i].after.ef >= 130

\* C1 witness: a card whose EF was below 1.3 has been updated with quality 0.
ClassicLowEFUpdated ==
    \E i \in 1 .. Len(hist) : hist[i].before.ef < 130 /\ hist[i].quality = 0

\* C2: for every card and every quality below 3, srs.update returns
\* repetitions 0 and interval 1 whatever the card's interval and repetitions.
ClassicResetBelowThree ==
    \A i \in 1 .. Len(hist) :
        hist[i].quality < 3 =>
            hist[i].after.repetitions = 0 /\ hist[i].after.interval = 1

\* C2 witness: a card with interval > 1 and repetitions > 0 got a quality < 3.
ClassicResetHappened ==
    \E i \in 1 .. Len(hist) :
        /\ hist[i].quality < 3
        /\ hist[i].before.interval > 1
        /\ hist[i].before.repetitions > 0

FirstThreePerfectFromDefault ==
    /\ Len(hist) >= 3
    /\ hist[1].before = DefaultCard
    /\ \A i \in 1 .. 3 : hist[i].quality = 5

\* C3: for quality >= 3 srs.update returns repetitions + 1, interval 1 at
\* repetitions' = 1, 6 at repetitions' = 2 and round(previous interval * new
\* EF) from repetitions' = 3 on; three quality-5 updates of the default card
\* give (1,1), (6,2), (round(6 * EF'),3).
ClassicSuccessSchedule ==
    /\ \A i \in 1 .. Len(hist) :
          hist[i].quality >= 3 =>
             LET b == hist[i].before
                 a == hist[i].after
             IN  /\ a.repetitions = b.repetitions + 1
                 /\ a.repetitions = 1 => a.interval = 1
                 /\ a.repetitions = 2 => a.interval = 6
                 /\ a.repetitions >= 3 =>
                       \E tie \in Ties :
                           a.interval = RoundPy(b.interval * a.ef, 100, tie)
    /\ FirstThreePerfectFromDefault =>
          /\ <<hist[1].after.interval, hist[1].after.repetitions>> = <<1, 1>>
          /\ <<hist[2].after.interval, hist[2].after.repetitions>> = <<6, 2>>
          /\ hist[3].after.repetitions = 3
          /\ hist[3].after.ef = 280
          /\ hist[3].after.interval = 17
          /\ \A tie \in Ties :
                hist[3].after.interval = RoundPy(6 * hist[3].after.ef, 100, tie)

\* C3 witness: the default card has had three quality-5 updates.
ClassicThreePerfectDone == FirstThreePerfectFromDefault

GradeMeets(g, c, t) ==
    CASE g = 5 -> c = t
      [] g = 4 -> 10 * c >= 9 * t
      [] g = 3 -> 10 * c >= 7 * t
      [] g = 2 -> 10 * c >= 5 * t
      [] g = 1 -> 10 * c >= 3 * t
      [] OTHER -> TRUE

\* C4: calculate_quality is 0 for total = 0 and otherwise the grade of the
\* first threshold, in descending order, that correct/total meets (1.0 -> 5,
\* >= 0.9 -> 4, >= 0.7 -> 3, >= 0.5 -> 2, >= 0.3 -> 1, else 0), bounds inclusive.
QualityFromRatioThresholds ==
    grade # NoGrade =>
        LET c == uses.correct
            t == uses.total
        IN  /\ t = 0 => grade = 0
            /\ t > 0 =>
                  /\ grade \in 0 .. 5
                  /\ GradeMeets(grade, c, t)
                  /\ \A h \in 0 .. 5 : h > grade => ~GradeMeets(h, c, t)
            /\ (c = 10 /\ t = 10) => grade = 5
            /\ (c = 9 /\ t = 10) => grade = 4
            /\ (c = 7 /\ t = 10) => grade = 3
            /\ (c = 5 /\ t = 10) => grade = 2
            /\ (c = 3 /\ t = 10) => grade = 1
            /\ (c = 2 /\ t = 10) => grade = 0

\* C4 witness: 9 correct uses of 10 have been graded (an inclusive bound).
QualityNineOfTenGraded ==
    uses = [correct |-> 9, total |-> 10] /\ grade # NoGrade

ERIntervals == <<2, 3, 3, 4, 4, 4>>

\* C5: six consecutive quality-4 expanding-retrieval reviews of a fresh record
\* give the intervals 2, 3, 3, 4, 4, 4 minutes, and a seventh review with
\* quality 5 gives 1440.
ERSixThenCheckpoint ==
    /\ \A k \in 1 .. 6 :
          (Len(hist) >= k /\ \A i \in 1 .. k : hist[i].quality = 4) =>
              hist[k].after.interval = ERIntervals[k]
    /\ (/\ Len(hist) >= 7
        /\ \A i \in 1 .. 6 : hist[i].quality = 4
        /\ hist[7].quality = 5) => hist[7].after.interval = 1440

\* C5 witness: six quality-4 reviews and then a quality-5 review were applied.
ERSevenReviewsDone ==
    /\ Len(hist) >= 7
    /\ \A i \in 1 .. 6 : hist[i].quality = 4
    /\ hist[7].quality = 5

(***************************************************************************)
(* Claims about the due selection.                                         *)
(***************************************************************************)
DueOf(row) == ParseInt(row.next_due).v

Rows(seq) == {seq[i] : i \in 1 .. Len(seq)}

\* C6: the due selection returns only records with nextDue <= now, in
\* ascending nextDue order, never more than limit of them (limit being a
\* count: nothing has fewer than zero records), and no due record that was
\* left out has a smaller nextDue than a returned one.
DueSelectionEarliestFirst ==
    due.asked =>
        LET r == due.rows
        IN  /\ limit >= 0 => Len(r) <= limit
            /\ \A i \in 1 .. Len(r) : r[i] \in Rows(file) /\ DueOf(r[i]) <= now
            /\ \A i, j \in 1 .. Len(r) : i < j => r[i] # r[j]
            /\ \A i, j \in 1 .. Len(r) : i < j => DueOf(r[i]) <= DueOf(r[j])
            /\ \A row \in Rows(file) \ Rows(r) :
                  DueOf(row) <= now =>
                     \A i \in 1 .. Len(r) : DueOf(r[i]) <= DueOf(row)

\* C6 witness: a query was truncated by its limit over a store that holds a
\* record that is not due and whose due records are not in due order.
DueSelectionTruncated ==
    /\ due.asked
    /\ limit >= 2
    /\ Len(due.rows) = limit
    /\ \E row \in Rows(file) \ Rows(due.rows) : DueOf(row) <= now
    /\ \E row \in Rows(file) : DueOf(row) > now
    /\ due.rows # SliceTo(FilterDue(file, now), limit)

(***************************************************************************)
(* Claims about the store and the analyzer's update cycle.                 *)
(***************************************************************************)

\* C7: when analyze_conversation has returned after applying a review of a
\* word (and nothing else ran meanwhile), the word's stored nextDue is the
\* review time plus 60 seconds times the interval (minutes) the review stored.
NextDueIsReviewTimePlusMinutes ==
    \A t \in Threads :
        (/\ thr[t].op = "analyze"
         /\ thr[t].pc = "ret"
         /\ thr[t].done
         /\ ~overlapped[t]
         /\ FindRow(file, thr[t].word) # 0) =>
            LET row == RowOf(file, thr[t].word)
            IN  \E tm \in thr[t].current_time .. now :
                   ParseInt(row.next_due).v = tm + ParseInt(row.interval).v * 60

\* C8: in every reachable state every record has correctUses <= totalUses.
CorrectNeverExceedsTotal ==
    \A i \in 1 .. Len(file) :
        ParseInt(file[i].correct_uses).v <= ParseInt(file[i].total_uses).v

\* C9: if an update cycle for a word fails at any point, every record of the
\* store is left exactly as it was before the cycle began.
FailedCycleLeavesStoreUnchanged ==
    \A t \in Threads :
        (thr[t].pc = "failed" /\ ~overlapped[t]) => file = thr[t].snap

AllIdle == \A t \in Threads : ~Busy(t)

ChangesPresent(w) ==
    /\ FindRow(file, w) # 0
    /\ TotalUses(file, w) = applied[w]
    /\ \A f \in DOMAIN lastSet[w] : RowOf(file, w)[f] = lastSet[w][f]

\* C10: when update cycles do not overlap (and no write fails), the changes
\* of all of them are present afterwards; an overlap can lose one (the
\* witness).
SerialCyclesKeepAllChanges ==
    (AllIdle /\ ~disturbed) => \A w \in word_cache : ChangesPresent(w)

Targeted(w) == applied[w] > 0 \/ lastSet[w] # <<>>

\* C10 witness: two cycles on different words overlapped, no write failed,
\* both completed, and the change of one of them is not in the store.
LostUpdateAcrossWords ==
    /\ AllIdle
    /\ fails = 0
    /\ ops = 2
    /\ \A w \in word_cache : Targeted(w)
    /\ \E w \in word_cache : FindRow(file, w) # 0 /\ ~ChangesPresent(w)

\* C11: no engine operation removes a record: whatever add_word,
\* update_word, update_srs and log_result calls have run, in whatever
\* interleaving, the words the store began with are in it when the calls
\* have returned.
NoRecordRemoved ==
    AllIdle => \A w \in word_cache : FindRow(file, w) # 0

(***************************************************************************)
(* Claims about the three interval computations.                           *)
(***************************************************************************)

\* C12: after any mix of Classic, SessionOptimized and ExpandingRetrieval
\* reviews of a record created with the defaults, a record with
\* repetitions > 0 has interval >= 1, and every interval the SessionOptimized
\* and ExpandingRetrieval computations returned is at least 1.
IntervalAtLeastOne ==
    /\ card.repetitions > 0 => card.interval >= 1
    /\ \A i \in 1 .. Len(hist) :
          hist[i].variant \in {"session", "expanding"} =>
              hist[i].after.interval >= 1

\* C12 witness: the three variants were applied to one record, the session
\* computation on a poor answer of a record with repetitions > 0.
MixedThreeVariants ==
    /\ Len(hist) = 3
    /\ {hist[i].variant : i \in 1 .. 3} = {"classic", "session", "expanding"}
    /\ card.repetitions > 0
    /\ \E i \in 1 .. 3 :
          /\ hist[i].variant = "session"
          /\ hist[i].quality <= 1
          /\ hist[i].before.repetitions >= 2

\* the number of reviews since the last one whose quality, on the 0-based
\* scale, was below 3
QualifyingStreak(offset) ==
    LET failed == {i \in 1 .. Len(hist) : hist[i].quality - offset < 3}
        last == IF failed = {} THEN 0
                ELSE CHOOSE i \in failed : \A j \in failed : j <= i
    IN  Len(hist) - last

\* C13: after any sequence of ExpandingRetrieval reviews of a fresh record,
\* repetitions is the number of consecutive qualifying reviews (quality >= 3
\* on the 0-based scale, that is review score - 1) since the last
\* non-qualifying one.
ERRepetitionsCountStreak ==
    card.repetitions = QualifyingStreak(1)

\* the SessionOptimized base interval the specification gives for a
\* repetitions count
SessionBase(r) ==
    CASE r = 0 -> 5
      [] r = 1 -> 20
      [] r = 2 -> 60
      [] r = 3 -> 240
      [] r = 4 -> 1440
      [] r = 5 -> 4320
      [] r = 6 -> 10080
      [] OTHER -> 43200

\* C14: for quality >= 3 calculate_session_intervals demotes nothing: the
\* result is floor(base(repetitions) * m), m = 1.0 for quality >= 4 and 0.8
\* for quality 3, base looked up with the repetitions passed in (43200 from
\* 7 on); repetitions 4 with quality >= 4 gives 1440.
SessionNoDemotionFromThree ==
    (grade # NoGrade /\ uses.quality >= 3) =>
        /\ grade = (SessionBase(uses.repetitions)
                       * (IF uses.quality >= 4 THEN 10 ELSE 8)) \div 10
        /\ (uses.repetitions = 4 /\ uses.quality >= 4) => grade = 1440

\* C14 witness: the interval for repetitions 4 and quality 5 was computed.
SessionCheckpointComputed ==
    grade # NoGrade /\ uses.repetitions = 4 /\ uses.quality = 5

(***************************************************************************)
(* Claims about the priority score.                                        *)
(***************************************************************************)
TenthHourMs == 3600000 \div 10

\* no term of the score but the overdue one applies to the record
OnlyOverdueApplies ==
    LET since == now - ParseInt(card.time_last_seen).v
        total == ParseInt(card.total_uses).v
        correct == ParseInt(card.correct_uses).v
    IN  /\ ParseInt(card.repetitions).v > 4
        /\ since > 2 * 3600000
        /\ ~(20 * 3600000 <= since /\ since <= 28 * 3600000)
        /\ (total = 0 \/ 10 * correct >= 7 * total)

\* min(100 + overdueHours * 10, 300) as a numerator over the score's
\* denominator, overdueHours = (now - nextDue) / 3600000
OverdueTermClaimed ==
    LET k == grade.den \div TenthHourMs
        late == now - ParseInt(card.next_due).v
    IN  IF late >= 0
        THEN Min(100 * TenthHourMs + late, 300 * TenthHourMs) * k
        ELSE 0

\* C15: the overdue term of the priority score is
\* min(100 + overdueHours * 10, 300) for a record with nextDue <= now and
\* absent otherwise: it is the whole score where no other term applies, and
\* what making the record due adds to the score in general; overdue by
\* exactly 5 hours with no other term, the score is exactly 150.
OverdueTermOfPriority ==
    grade.den > 0 =>
        /\ grade.den % TenthHourMs = 0
        /\ OnlyOverdueApplies => grade.num = OverdueTermClaimed
        /\ grade.num
             - get_review_priority_score(
                   [card EXCEPT !.next_due = IntStr(now + 1)], now).num
              = OverdueTermClaimed
        /\ (OnlyOverdueApplies /\ now - ParseInt(card.next_due).v = 5 * 3600000)
              => grade.num = 150 * grade.den

\* C15 witness: a record overdue by exactly 5 hours, to which no other term
\* applies, was scored.
FiveHoursOverdueScored ==
    /\ grade.den > 0
    /\ OnlyOverdueApplies
    /\ now - ParseInt(card.next_due).v = 5 * 3600000

(***************************************************************************)
(* Claims about single calls of the store's methods.                       *)
(***************************************************************************)
Returned(t, op) ==
    thr[t].op = op /\ thr[t].pc = "ret" /\ ~overlapped[t]

\* C16: update_word sets exactly the supplied fields of the record whose
\* word matches case-insensitively, keeps its other fields and leaves every
\* other record unchanged; get_word then returns the written values, and the
\* integers written are read back exactly.
UpdateWordFrame ==
    \A t \in Threads :
        (Returned(t, "update_word") /\ thr[t].done) =>
            LET st == thr[t]
                hits == {j \in 1 .. Len(st.snap) :
                           Lower(st.snap[j].word) = Lower(st.word)}
            IN  /\ Len(file) = Len(st.snap)
                /\ \A j \in 1 .. Len(st.snap) :
                      \/ /\ j \in hits
                         /\ \A k \in hits : j <= k
                         /\ \A f \in DOMAIN st.snap[j] :
                               file[j][f] = IF f \in DOMAIN st.kwargs
                                            THEN st.kwargs[f]
                                            ELSE st.snap[j][f]
                         /\ RowOf(file, st.word) = file[j]
                         /\ \E kv \in KwargValues :
                               /\ DOMAIN kv = DOMAIN st.kwargs
                               /\ \A f \in DOMAIN kv :
                                     /\ st.kwargs[f] = IntStr(kv[f])
                                     /\ ParseInt(file[j][f]).ok
                                     /\ ParseInt(file[j][f]).v = kv[f]
                      \/ /\ ~(j \in hits /\ \A k \in hits : j <= k)
                         /\ file[j] = st.snap[j]

\* C16 witness: update_word("cat", correct_uses=1, total_uses=12) has
\* returned; the record is stored as "Cat" and an earlier call had changed
\* it.
UpdateWordOfChangedRecord ==
    /\ Returned("main", "update_word")
    /\ thr["main"].done
    /\ thr["main"].word = "cat"
    /\ DOMAIN thr["main"].kwargs = {"correct_uses", "total_uses"}
    /\ Len(thr["main"].snap) >= 2
    /\ thr["main"].snap[1].word = "Cat"
    /\ thr["main"].snap[1] # NewRow("Cat")

\* C17: add_word of a word already stored (compared case-insensitively)
\* leaves the store unchanged, the store never holds two records whose words
\* differ only in case, and add_word of a new word appends exactly one record
\* with EF 2.5, interval 1, repetitions 0 and the other four fields 0.
AddWordIdempotent ==
    /\ \A i, j \in 1 .. Len(file) :
          Lower(file[i].word) = Lower(file[j].word) => i = j
    /\ \A t \in Threads :
          Returned(t, "add_word") =>
              LET st == thr[t]
                  stored == \E i \in 1 .. Len(st.snap) :
                               Lower(st.snap[i].word) = Lower(st.word)
              IN  /\ stored => file = st.snap
                  /\ (~stored /\ st.done) =>
                        /\ Len(file) = Len(st.snap) + 1
                        /\ \A i \in 1 .. Len(st.snap) : file[i] = st.snap[i]
                        /\ file[Len(file)] =
                              [word |-> st.word,
                               EF |-> <<"2", ".", "5">>,
                               interval |-> <<"1">>,
                               repetitions |-> <<"0">>,
                               time_last_seen |-> <<"0">>,
                               next_due |-> <<"0">>,
                               correct_uses |-> <<"0">>,
                               total_uses |-> <<"0">>]
                        /\ ParseFloat(file[Len(file)].EF).v = 250
                        /\ ParseInt(file[Len(file)].interval).v = 1

\* C17 witness: a second add_word("elk") has returned; the first one had
\* appended the record.
AddedTwice ==
    /\ Returned("main", "add_word")
    /\ thr["main"].word = "elk"
    /\ \E i \in 1 .. Len(thr["main"].snap) : thr["main"].snap[i].word = "elk"
    /\ file = thr["main"].snap

\* C18: update_word, update_srs and log_result called for a word that is
\* not in the store create no record and change no field of any record.
MissingWordIsNoOp ==
    \A t \in Threads :
        \A op \in {"update_word", "update_srs", "log_result"} :
            (/\ Returned(t, op)
             /\ \A i \in 1 .. Len(thr[t].snap) :
                   Lower(thr[t].snap[i].word) # Lower(thr[t].word)) =>
                /\ Len(file) = Len(thr[t].snap)
                /\ \A i \in 1 .. Len(file) : file[i] = thr[t].snap[i]

\* C18 witness: update_srs("elk", ...) has rewritten a store that holds
\* other records and no record of "elk".
UpdateSrsOfMissingWord ==
    /\ Returned("main", "update_srs")
    /\ thr["main"].done
    /\ thr["main"].word = "elk"
    /\ Len(thr["main"].snap) >= 2
    /\ \A i \in 1 .. Len(thr["main"].snap) :
          Lower(thr["main"].snap[i].word) # "elk"

(***************************************************************************)
(* Rounding of the Classic interval.                                       *)
(***************************************************************************)
\* num / den rounded to the nearest integer, an exact half away from zero
\* (num >= 0, den > 0)
RoundHalfAway(num, den) == (2 * num + den) \div (2 * den)

\* C19: when srs.update reaches repetitions' >= 3, interval' is the product
\* of the previous interval and the new EF rounded half away from zero, for
\* every record and quality >= 3 (previous interval 5 and new EF 2.5 give
\* 13).
ClassicRoundsHalfAwayFromZero ==
    \A i \in 1 .. Len(hist) :
        (hist[i].quality >= 3 /\ hist[i].after.repetitions >= 3) =>
            hist[i].after.interval =
                RoundHalfAway(hist[i].before.interval * hist[i].after.ef, 100)

(***************************************************************************)
(* calculate_session_intervals at quality 2.                               *)
(***************************************************************************)
\* C20: for quality 2 the multiplier is 0.6; repetitions >= 4 is first
\* demoted to max(0, repetitions - 2) and the base interval looked up again
\* by the same table rule (43200 for a value >= 8), so the result is
\* floor(0.6 * base(repetitions - 2)) for repetitions >= 4 and
\* floor(0.6 * base(repetitions)) below 4.
SessionQualityTwoDemotes ==
    (grade # NoGrade /\ uses.quality = 2) =>
        grade = IF uses.repetitions >= 4
                THEN (SessionBase(Max(0, uses.repetitions - 2)) * 6) \div 10
                ELSE (SessionBase(uses.repetitions) * 6) \div 10

(***************************************************************************)
(* Order of the due selection among records with equal nextDue.            *)
(***************************************************************************)
\* the place of a word in the order of identifiers
WordRank(w) == CHOOSE k \in 1 .. Len(DueWords) : DueWords[k] = w

\* the same records stored in the arrangement p
Rearranged(data, p) == [k \in 1 .. Len(data) |-> data[p[k]]]

\* C21: among due records with equal nextDue the due selection orders them
\* by identifier, so the list returned, truncation included, is the same
\* whatever order the records are stored in.
DueTiesOrderedByWord ==
    due.asked =>
        /\ \A i, j \in 1 .. Len(due.rows) :
              (i < j /\ DueOf(due.rows[i]) = DueOf(due.rows[j])) =>
                  WordRank(due.rows[i].word) < WordRank(due.rows[j].word)
        /\ \A p \in Arrangements(Len(file)) :
              WordPicker_get_due_words(Rearranged(file, p), now, limit) = due.rows

(***************************************************************************)
(* Eligibility for review in a session.                                    *)
(***************************************************************************)
\* C22: should_review_in_session is true exactly when nextDue <= now, or
\* timeLastSeen >= sessionStart, or 20 <= hours since timeLastSeen <= 28, or
\* repetitions <= 3 and 0 <= nextDue - now <= 6 hours; so an overdue record
\* is reviewable whatever its other fields, and a record with repetitions
\* >= 4 that meets none of the first three is not, even when due within 6
\* hours.
EligibleExactlyByFourRules ==
    grade.decided =>
        LET nextDue == ParseInt(card.next_due).v
            timeLastSeen == ParseInt(card.time_last_seen).v
            repetitions == ParseInt(card.repetitions).v
            overdue == nextDue <= now
            inSession == timeLastSeen >= uses.session_start
            inWindow == /\ 20 * 3600000 <= now - timeLastSeen
                        /\ now - timeLastSeen <= 28 * 3600000
            dueSoon == /\ repetitions <= 3
                       /\ 0 <= nextDue - now
                       /\ nextDue - now <= 6 * 3600000
        IN  /\ grade.review <=> (overdue \/ inSession \/ inWindow \/ dueSoon)
            /\ overdue => grade.review
            /\ (repetitions >= 4 /\ ~overdue /\ ~inSession /\ ~inWindow) =>
                  ~grade.review

\* C22 witness: a record with repetitions >= 4, due in exactly 6 hours, last
\* seen before the session start and outside the window, was refused.
WellKnownDueSoonRefused ==
    /\ grade.decided
    /\ ~grade.review
    /\ ParseInt(card.repetitions).v >= 4
    /\ ParseInt(card.next_due).v = now + 6 * 3600000
    /\ ParseInt(card.time_last_seen).v < uses.session_start

(***************************************************************************)
(* EF and the quality of srs.update.                                       *)
(***************************************************************************)
\* the change of EF the specification lists for a clamped quality, in
\* hundredths
ListedEFChange(q) ==
    CASE q = 5 -> 10
      [] q = 4 -> 0
      [] q = 3 -> 0 - 14
      [] q = 2 -> 0 - 32
      [] q = 1 -> 0 - 54
      [] q = 0 -> 0 - 80

\* C23: srs.update changes EF by an amount that depends only on the clamped
\* quality (+0.10, 0, -0.14, -0.32, -0.54, -0.80 for 5 .. 0) and floors the
\* result at 1.3, in the reset branch as in the success branch, whatever the
\* record's repetitions and interval.
ClassicEFChangeByQualityOnly ==
    \A i \in 1 .. Len(hist) :
        LET q == IF hist[i].quality > 5 THEN 5
                 ELSE IF hist[i].quality < 0 THEN 0 ELSE hist[i].quality
            sum == hist[i].before.ef + ListedEFChange(q)
        IN  hist[i].after.ef = IF sum < 130 THEN 130 ELSE sum

\* C23 witness: an EF went down by 0.54 in a failed review, and an EF went
\* down by 0.14 in a successful one of a record with repetitions and an
\* interval.
ClassicEFChangedInBothBranches ==
    /\ \E i \in 1 .. Len(hist) :
          /\ hist[i].quality = 1
          /\ hist[i].after.ef > 130
          /\ hist[i].after.ef = hist[i].before.ef - 54
    /\ \E i \in 1 .. Len(hist) :
          /\ hist[i].quality = 3
          /\ hist[i].before.repetitions >= 2
          /\ hist[i].before.interval > 1
          /\ hist[i].after.ef = hist[i].before.ef - 14

\* C24: srs.update clamps quality to [0, 5]: a quality above 5 gives the
\* same (EF, interval, repetitions) as quality 5, one below 0 the same as
\* quality 0.
ClassicQualityClamped ==
    \A i \in 1 .. Len(hist) :
        LET b == hist[i].before
            a == hist[i].after
        IN  /\ hist[i].quality > 5 =>
                  /\ \E tie \in TiesOf(b, 5) : a = update(b, 5, tie)
                  /\ a.ef = b.ef + 10 \/ (a.ef = 130 /\ b.ef + 10 < 130)
                  /\ a.repetitions = b.repetitions + 1
            /\ hist[i].quality < 0 =>
                  /\ \E tie \in TiesOf(b, 0) : a = update(b, 0, tie)
                  /\ a.ef = b.ef - 80 \/ (a.ef = 130 /\ b.ef - 80 < 130)
                  /\ a.repetitions = 0
                  /\ a.interval = 1

\* C24 witness: a record with repetitions >= 2 got quality 6, and later a
\* quality of -1.
ClassicOutOfRangeQualities ==
    \E i, j \in 1 .. Len(hist) :
        /\ i < j
        /\ hist[i].quality = 6
        /\ hist[i].before.repetitions >= 2
        /\ hist[j].quality = 0 - 1
        /\ hist[j].before.ef > 210

(***************************************************************************)
(* The expanding-retrieval update of any record.                           *)
(***************************************************************************)
\* the schedule of the specification, counted from 0
Schedule(k) ==
    CASE k = 0 -> 2
      [] k = 1 -> 5
      [] k = 2 -> 8
      [] k = 3 -> 12
      [] k = 4 -> 16
      [] k = 5 -> 20

\* C25: while repetitions < 6, _calculate_srs_parameters sets interval to
\* schedule[repetitions] - schedule[repetitions - 1] (to schedule[0] = 2 at
\* repetitions 0, whatever interval the record stores), replaces it by
\* max(1, floor(interval / 2)) when the adjusted quality (quality - 1) is
\* below 3, and increases repetitions by exactly 1.
ERScheduleStep ==
    \A i \in 1 .. Len(hist) :
        LET r == hist[i].before.repetitions
            step == IF r = 0 THEN 2 ELSE Schedule(r) - Schedule(r - 1)
            halved == IF step \div 2 < 1 THEN 1 ELSE step \div 2
        IN  r < 6 =>
              /\ hist[i].after.interval =
                    IF hist[i].quality - 1 < 3 THEN halved ELSE step
              /\ hist[i].after.repetitions = r + 1

\* C25 witness: a record at repetitions 0 storing interval 1440 got quality
\* 3 (adjusted 2) and then quality 4.
ERScheduleFromStoredDay ==
    /\ Len(hist) = 2
    /\ hist[1].before.repetitions = 0
    /\ hist[1].before.interval = 1440
    /\ hist[1].quality = 3
    /\ hist[1].after.interval = 1
    /\ hist[2].quality = 4
    /\ hist[2].after.interval = 3

\* C26: once a record has repetitions >= 6, every further review increments
\* repetitions by 1 and sets interval to 1440 when the adjusted quality is
\* >= 3 and to 720 otherwise; whatever the later qualities, the record never
\* returns to the sub-hour schedule.
ERCheckpointForGood ==
    /\ \A i \in 1 .. Len(hist) :
          hist[i].before.repetitions >= 6 =>
             /\ hist[i].after.repetitions = hist[i].before.repetitions + 1
             /\ hist[i].after.interval =
                   IF hist[i].quality - 1 >= 3 THEN 1440 ELSE 720
    /\ \A i, j \in 1 .. Len(hist) :
          (i <= j /\ hist[i].before.repetitions >= 6) =>
             /\ hist[j].after.repetitions > 6
             /\ hist[j].after.interval >= 60
    /\ (\E i \in 1 .. Len(hist) : hist[i].before.repetitions >= 6) =>
          (card.repetitions > 6 /\ card.interval \in {720, 1440})

\* C26 witness: a record that reached repetitions 6 in a review had a poor
\* review after it.
ERCheckpointAfterPoorReview ==
    /\ Len(hist) = 2
    /\ hist[1].before.repetitions = 5
    /\ hist[1].after.repetitions = 6
    /\ hist[2].quality = 1
    /\ hist[2].after.interval = 720

\* C27: each review sets EF' = max(1.3, EF + 0.1 * (adjustedQuality - 2));
\* for every record and every quality 1 .. 5 the change of EF lies within
\* [-0.2, +0.2] and EF' is never below 1.3.
ERNudgesEF ==
    \A i \in 1 .. Len(hist) :
        LET nudged == hist[i].before.ef + 10 * ((hist[i].quality - 1) - 2)
            change == hist[i].after.ef - hist[i].before.ef
        IN  /\ hist[i].after.ef = IF nudged < 130 THEN 130 ELSE nudged
            /\ 0 - 20 <= change /\ change <= 20
            /\ hist[i].after.ef >= 130

\* C27 witness: EF 1.4 met the floor in a review of quality 1, and then
\* rose by 0.2 in a review of quality 5.
ERNudgedAtTheFloor ==
    /\ Len(hist) = 2
    /\ hist[1].before.ef = 140
    /\ hist[1].quality = 1
    /\ hist[1].after.ef = 130
    /\ hist[2].quality = 5
    /\ hist[2].after.ef = 150

(***************************************************************************)
(* The analyzer and a word that has no record.                             *)
(***************************************************************************)
\* C28: when analyze_conversation finds no record for a word, it writes no
\* field of any record for that review, the error goes to the handler that
\* reports it for the word, the word is not tried again, and the remaining
\* words of the text are still processed.
MissingRecordSkipped ==
    [][LET st == thr["bg"]
           moved == thr'["bg"] # thr["bg"]
           missing == \A i \in 1 .. Len(file) : Lower(file[i].word) # st.word
       IN  /\ (st.op = "analyze" /\ st.pc = "get" /\ missing /\ moved) =>
                  /\ thr'["bg"].pc = "failed"
                  /\ thr'["bg"].data = <<>>
                  /\ file' = file
           /\ (st.op = "analyze" /\ st.pc = "failed" /\ moved) =>
                  /\ file' = file
                  /\ thr'["bg"].data = <<>>
                  /\ IF st.words = <<>>
                     THEN thr'["bg"].pc = "ret"
                     ELSE /\ thr'["bg"].pc = "get"
                          /\ thr'["bg"].word = Head(st.words)
                          /\ thr'["bg"].words = Tail(st.words)]_vars

\* C28 witness: the analyzer found no record for the first word of a text of
\* two words (the file was truncated by the session's write) and is in the
\* handler, the second word still to come.
MissingRecordReported ==
    /\ thr["bg"].op = "analyze"
    /\ thr["bg"].pc = "failed"
    /\ thr["bg"].words # <<>>
    /\ file = <<>>
    /\ thr["main"].pc = "f1"

(***************************************************************************)
(* The priority score as a sum of independent terms.                       *)
(***************************************************************************)
\* the five terms of the specification for the record in card at now, as
\* numerators over the score's denominator
PriorityTermsClaimed ==
    LET d == grade.den
        since == now - ParseInt(card.time_last_seen).v
        repetitions == ParseInt(card.repetitions).v
        correct == ParseInt(card.correct_uses).v
        total == ParseInt(card.total_uses).v
    IN  [overdue |-> OverdueTermClaimed,
         window |-> IF 20 * 3600000 <= since /\ since <= 28 * 3600000
                    THEN 150 * d ELSE 0,
         newness |-> IF repetitions <= 4 THEN (5 - repetitions) * 20 * d ELSE 0,
         struggling |-> IF total > 0 /\ 10 * correct < 7 * total
                        THEN (total - correct) * 50 * (d \div total) ELSE 0,
         recent |-> IF since <= 2 * 3600000 THEN 30 * d ELSE 0]

\* C29: the priority score is exactly the sum of the terms that apply, each
\* decided independently of the others: the overdue term when nextDue <= now,
\* +150 when 20 <= hours since timeLastSeen <= 28, +(5 - repetitions) * 20
\* when repetitions <= 4, +(1 - accuracy) * 50 when totalUses > 0 and
\* accuracy < 0.7, +30 when hours since timeLastSeen <= 2; 0 when none
\* applies.
PriorityIsSumOfTerms ==
    grade.den > 0 =>
        LET t == PriorityTermsClaimed
            total == ParseInt(card.total_uses).v
        IN  /\ total > 0 => grade.den % total = 0
            /\ grade.num = t.overdue + t.window + t.newness + t.struggling
                              + t.recent
            /\ (ParseInt(card.next_due).v > now /\ t.window = 0 /\ t.recent = 0
                  /\ ParseInt(card.repetitions).v > 4 /\ t.struggling = 0) =>
                  grade.num = 0

\* C29 witness: a record to which the overdue, window, newness and
\* struggling terms all apply was scored.
PriorityFourTermsScored ==
    /\ grade.den > 0
    /\ ParseInt(card.next_due).v < now
    /\ PriorityTermsClaimed.window > 0
    /\ PriorityTermsClaimed.newness > 0
    /\ PriorityTermsClaimed.struggling > 0
    /\ grade.num > 0

(***************************************************************************)
(* What update_srs writes.                                                 *)
(***************************************************************************)
\* C30: update_srs(word, quality, EF, interval, repetitions) stores the
\* given EF, interval and repetitions for the word, sets timeLastSeen to now
\* and nextDue to now + interval * 86400 seconds, and leaves the record's
\* correctUses and totalUses and every other record unchanged.
UpdateSrsFrame ==
    \A t \in Threads :
        (Returned(t, "update_srs") /\ thr[t].done) =>
            LET st == thr[t]
                hits == {j \in 1 .. Len(st.snap) :
                           Lower(st.snap[j].word) = Lower(st.word)}
            IN  /\ Len(file) = Len(st.snap)
                /\ \A j \in 1 .. Len(st.snap) :
                      IF j \in hits /\ (\A k \in hits : j <= k)
                      THEN /\ ParseFloat(file[j].EF) = [ok |-> TRUE, v |-> st.ef]
                           /\ ParseInt(file[j].interval) =
                                 [ok |-> TRUE, v |-> st.interval]
                           /\ ParseInt(file[j].repetitions) =
                                 [ok |-> TRUE, v |-> st.repetitions]
                           /\ ParseInt(file[j].time_last_seen) =
                                 [ok |-> TRUE, v |-> st.current_time]
                           /\ ParseInt(file[j].next_due) =
                                 [ok |-> TRUE,
                                  v |-> st.current_time + st.interval * 86400]
                           /\ file[j].correct_uses = st.snap[j].correct_uses
                           /\ file[j].total_uses = st.snap[j].total_uses
                           /\ file[j].word = st.snap[j].word
                      ELSE file[j] = st.snap[j]

\* C30 witness: update_srs("dog", ...) has returned after a result had been
\* logged for the word.
UpdateSrsOfUsedRecord ==
    /\ Returned("main", "update_srs")
    /\ thr["main"].done
    /\ thr["main"].word = "dog"
    /\ Len(thr["main"].snap) >= 2
    /\ thr["main"].snap[2].total_uses = <<"1">>
    /\ file[2].total_uses = <<"1">>
    /\ file[1] = thr["main"].snap[1]

(***************************************************************************)
(* Claims about the background processor.                                  *)
(***************************************************************************)
Blank(text) == \A k \in 1 .. Len(text) : text[k] \in {" ", "\n"}

RECURSIVE Accepted(_)
Accepted(texts) ==
    IF texts = <<>> THEN <<>>
    ELSE IF Blank(Head(texts)) THEN Accepted(Tail(texts))
    ELSE <<Head(texts)>> \o Accepted(Tail(texts))

HandedTexts == [k \in 1 .. Len(handed) |-> handed[k].text]

IsPrefix(s, t) ==
    /\ Len(s) <= Len(t)
    /\ \A k \in 1 .. Len(s) : s[k] = t[k]

HandedUpTo(i) ==
    /\ Len(handed) >= i
    /\ IsPrefix(SubSeq(HandedTexts, 1, i), Accepted(added))

\* C31: the texts handed to the analyzer are at all times the first of the
\* non-blank texts given to add_text, each once and in the order of the
\* calls (so no empty or whitespace-only text is among them), and while
\* running stays true every non-blank text given to add_text is handed to
\* the analyzer in the end.
AddedTextsHandedOnceInOrder ==
    /\ [](IsPrefix(HandedTexts, Accepted(added)))
    /\ \A i \in 1 .. MaxTexts :
          (Len(Accepted(added)) >= i) ~> (~running \/ HandedUpTo(i))

TwoTextsHandedInOrder ==
    /\ running
    /\ Len(handed) = 2
    /\ handed[1].text # handed[2].text
    /\ handed[2].outcome # "running"


\* s can be had from t by leaving elements out
RECURSIVE IsSubsequence(_, _)
IsSubsequence(s, t) ==
    IF s = <<>> THEN TRUE
    ELSE IF t = <<>> THEN FALSE
    ELSE IF Head(s) = Head(t) THEN IsSubsequence(Tail(s), Tail(t))
    ELSE IsSubsequence(s, Tail(t))

\* C32: the history handed to the analyzer with the k-th text consists of
\* texts added before that text only, the text itself not among them,
\* whatever was added between its queueing and its dequeueing.
HistoryHoldsEarlierTextsOnly ==
    \A k \in 1 .. Len(handed) :
        /\ k <= Len(Accepted(added))
        /\ IsSubsequence(handed[k].history,
                         SubSeq(Accepted(added), 1, k - 1))


(***************************************************************************)
(* Claims about the posttest scheduler.                                    *)
(***************************************************************************)
PosttestTried(i) == mailbox'[i].posttests_tried > mailbox[i].posttests_tried

PosttestDelivered(i) ==
    mailbox'[i].posttests_delivered > mailbox[i].posttests_delivered

\* C33: a call tries to send the posttest e-mail of a test only when the
\* clock has reached the test's session completion plus posttest_delay_hours
\* and the test is neither completed nor e-mailed; a try that fails leaves
\* the test not e-mailed, hence due at the next check; a try that succeeds
\* marks it e-mailed, and a test with a delivered posttest e-mail is never
\* tried again.
PosttestSentWhenDueAndOnce ==
    [][\A i \in Tests :
          LET test == scheduled_tests[i]
          IN  /\ PosttestTried(i) =>
                    /\ clock >= test.session_complete_time + posttest_delay_hours
                    /\ ~test.email_sent
                    /\ ~test.test_completed
              /\ (PosttestTried(i) /\ ~PosttestDelivered(i)) =>
                    /\ ~scheduled_tests'[i].email_sent
                    /\ posttest_due(scheduled_tests'[i], clock')
              /\ PosttestDelivered(i) => scheduled_tests'[i].email_sent
              /\ mailbox[i].posttests_delivered >= 1 => ~PosttestTried(i)]_vars

PosttestRetriedAndDelivered ==
    \E i \in Tests :
        /\ mailbox[i].posttests_tried = 2
        /\ mailbox[i].posttests_delivered = 1
        /\ scheduled_tests[i].email_sent

ReminderTried(i) == mailbox'[i].reminders_tried > mailbox[i].reminders_tried

\* C34: whatever the calls, a reminder is tried for a test only after its
\* posttest e-mail was delivered and while the test is not marked completed,
\* and the reminders delivered for one test never exceed max_reminders.
RemindersAfterPosttestAndBounded ==
    [][\A i \in Tests :
          /\ ReminderTried(i) =>
                /\ mailbox[i].posttests_delivered >= 1
                /\ scheduled_tests[i].email_sent
                /\ ~scheduled_tests[i].test_completed
          /\ mailbox'[i].reminders_delivered <= max_reminders]_vars

AllRemindersDelivered ==
    \E i \in Tests :
        /\ mailbox[i].reminders_delivered = max_reminders
        /\ mailbox[i].reminders_tried > max_reminders
        /\ ~scheduled_tests[i].test_completed


(***************************************************************************)
(* Claims about the second SM-2 implementation and the intervals.          *)
(***************************************************************************)
\* C35: for every record and every review score 1..5 the result of
\* EffectivenessAnalyzer._calculate_srs_parameters (EF, interval,
\* repetitions) is the result of srs.update for the same record and the
\* score minus 1.
SecondImplementationAgreesWithClassic ==
    \A k \in 1 .. Len(hist) :
        \E tie \in TiesOf(hist[k].before, hist[k].quality - 1) :
            hist[k].after = update(hist[k].before, hist[k].quality - 1, tie)


\* C36: on the records srs.update leads to from the default record, a review
\* of quality 3 or more returns an interval that is not shorter than the
\* interval of the record reviewed.
SuccessNeverShortensInterval ==
    \A k \in 1 .. Len(hist) :
        hist[k].quality >= 3 =>
            hist[k].after.interval >= hist[k].before.interval

\* a failed review, then three successes: the intervals 1, 6 and more
GrownAgainAfterReset ==
    /\ Len(hist) = 4
    /\ hist[1].quality < 3
    /\ \A j \in 2 .. 4 : hist[j].quality >= 3
    /\ hist[2].after.interval = hist[2].before.interval
    /\ hist[4].after.interval > hist[4].before.interval


\* C37: at one repetitions count, of two qualities within 0..5 the lower
\* one never gets the longer interval from calculate_session_intervals.
SessionIntervalMonotoneInQuality ==
    \A j, k \in 1 .. Len(hist) :
        (hist[j].quality \in 0 .. 5 /\ hist[k].quality \in 0 .. 5
            /\ hist[j].quality <= hist[k].quality)
                => hist[j].interval <= hist[k].interval

\* many repetitions, where quality 2 steps back and quality 1 starts over
DemotedBelowEffortfulRecall ==
    /\ uses.repetitions >= 10
    /\ Len(hist) = 3
    /\ hist[1].quality = 1 /\ hist[2].quality = 2 /\ hist[3].quality = 3
    /\ hist[1].interval < hist[2].interval
    /\ hist[2].interval < hist[3].interval


(***************************************************************************)
(* Claims about restarting the background processor and about analyses     *)
(* that raise.                                                             *)
(***************************************************************************)
StoppedThenStarted ==
    /\ caller.pc = "idle"
    /\ Len(caller.calls) >= 2
    /\ caller.calls[Len(caller.calls) - 1] = "stop"
    /\ caller.calls[Len(caller.calls)] = "start"

\* C38: once stop() and then start() have returned, running is true and the
\* processing thread is alive, also when the join in stop() timed out.
RestartedProcessorRuns ==
    StoppedThenStarted => (running /\ is_alive(processing_thread))


AnalysisRaises ==
    /\ processing_thread.pc = "analyze"
    /\ handed'[Len(handed')].outcome = "raised"

RaisedBefore(j) ==
    \E i \in 1 .. Len(handed) : i < j /\ handed[i].outcome = "raised"

\* C39: when the analysis of a text raises, the processing thread stays
\* alive and the queue is left as it is (the text is not put back), and
\* while running stays true every text queued after that text is handed to
\* the analyzer, each once and in order.
AnalysisErrorDropsOnlyThatText ==
    /\ [][AnalysisRaises =>
              /\ is_alive(processing_thread')
              /\ processing_queue' = processing_queue]_vars
    /\ \A j \in 1 .. MaxTexts :
          (RaisedBefore(j) /\ Len(Accepted(added)) >= j)
              ~> (~running \/ HandedUpTo(j))

NextTextAnalysedAfterError ==
    /\ running
    /\ Len(handed) = 2
    /\ handed[1].outcome = "raised"
    /\ handed[2].outcome = "returned"
    /\ processing_queue = <<>>

====
